---- MODULE Spec2Model ----
(***************************************************************************)
(* Model of the editorial decision and range-coalescing core of the video  *)
(* editor: TimeRange, DecisionMatrix (decideFrame), RangeCoalescer         *)
(* (coalesceToRanges, mergeAdjacentRanges, limitByDuration).               *)
(*                                                                         *)
(* Numbers.  Seconds, aesthetic scores, confidences and priorities are     *)
(* JavaScript numbers in the source.  The model keeps them in fixed point, *)
(* in tenths: 1.0 s is 10, a score of 0.3 is 3, priority 5.2 is 52.        *)
(* Sums, differences, min, max and comparisons of tenths are exact, as     *)
(* they are on the source's doubles for the values used here.              *)
(*                                                                         *)
(* Strings.  A string is a sequence of pieces; the string is the           *)
(* concatenation of its pieces.  A frame label is spelled one character    *)
(* per piece, so that toLowerCase and includes work on characters; a       *)
(* literal of a template string is one piece.  The empty string is << >>.  *)
(***************************************************************************)
EXTENDS Integers, Sequences, FiniteSets, TLC

\* A source literal in seconds, score or priority units, as tenths.
Tenths(n) == n * 10

(***************************************************************************)
(* JavaScript built-ins used by the source.                                *)
(***************************************************************************)
Min(a, b) == IF a <= b THEN a ELSE b
Max(a, b) == IF a >= b THEN a ELSE b

UpperChars ==
  << "A", "B", "C", "D", "E", "F", "G", "H", "I", "J", "K", "L", "M",
     "N", "O", "P", "Q", "R", "S", "T", "U", "V", "W", "X", "Y", "Z" >>
LowerChars ==
  << "a", "b", "c", "d", "e", "f", "g", "h", "i", "j", "k", "l", "m",
     "n", "o", "p", "q", "r", "s", "t", "u", "v", "w", "x", "y", "z" >>

\* String.prototype.toLowerCase, on one character and on a string.
ToLowerCaseChar(c) ==
  IF \E i \in 1..Len(UpperChars) : UpperChars[i] = c
  THEN LowerChars[CHOOSE i \in 1..Len(UpperChars) : UpperChars[i] = c]
  ELSE c
ToLowerCase(s) == [i \in 1..Len(s) |-> ToLowerCaseChar(s[i])]

\* String.prototype.includes: sub occurs in s as a contiguous run.
RECURSIVE IncludesFrom(_, _, _)
IncludesFrom(s, sub, k) ==
  IF k + Len(sub) > Len(s) THEN FALSE
  ELSE IF SubSeq(s, k + 1, k + Len(sub)) = sub THEN TRUE
  ELSE IncludesFrom(s, sub, k + 1)
Includes(s, sub) == IncludesFrom(s, sub, 0)

\* Array.prototype.join of strings with a separator.
RECURSIVE Join(_, _)
Join(strs, sep) ==
  IF Len(strs) = 0 THEN << >>
  ELSE IF Len(strs) = 1 THEN strs[1]
  ELSE strs[1] \o sep \o Join(Tail(strs), sep)

\* Number.prototype.toFixed(0) of a non-negative whole number.
Digits == << "0", "1", "2", "3", "4", "5", "6", "7", "8", "9" >>
RECURSIVE ToFixed0(_)
ToFixed0(n) ==
  IF n < 10 THEN << Digits[n + 1] >>
  ELSE ToFixed0(n \div 10) \o << Digits[(n % 10) + 1] >>

\* Array.prototype.sort with a comparator (a, b) => key(a) - key(b), which
\* is stable: each element is inserted after every element whose key is not
\* greater than its own.  keys[i] is the key of arr[i].
RECURSIVE InsertSorted(_, _, _, _)
InsertSorted(sorted, sortedKeys, x, k) ==
  IF Len(sorted) = 0 THEN << x >>
  ELSE IF k < sortedKeys[1] THEN << x >> \o sorted
  ELSE << sorted[1] >> \o InsertSorted(Tail(sorted), Tail(sortedKeys), x, k)
RECURSIVE SortFrom(_, _, _, _, _)
SortFrom(arr, keys, i, acc, accKeys) ==
  IF i > Len(arr) THEN acc
  ELSE SortFrom(arr, keys, i + 1,
                InsertSorted(acc, accKeys, arr[i], keys[i]),
                InsertSorted(accKeys, accKeys, keys[i], keys[i]))
SortByKey(arr, keys) == SortFrom(arr, keys, 1, << >>, << >>)

\* Array.prototype.filter: keep[i] is the predicate's answer for arr[i].
RECURSIVE FilterFrom(_, _, _)
FilterFrom(arr, keep, i) ==
  IF i > Len(arr) THEN << >>
  ELSE IF keep[i] THEN << arr[i] >> \o FilterFrom(arr, keep, i + 1)
  ELSE FilterFrom(arr, keep, i + 1)
Filter(arr, keep) == FilterFrom(arr, keep, 1)

\* A value returned, and an Error thrown.
Returned(v) == [threw |-> FALSE, value |-> v]
Thrown(msg) == [threw |-> TRUE, error |-> msg]

(***************************************************************************)
(* domain/models/TimeRange                                                 *)
(***************************************************************************)
\* The default of createTimeRange's priority parameter.
DefaultPriority == Tenths(5)

createTimeRange(start, end, priority, label) ==
  IF start < 0 THEN Thrown("Start time cannot be negative")
  ELSE IF end < start THEN Thrown("End time must be after start time")
  ELSE Returned([start |-> start, end |-> end, priority |-> priority, label |-> label])

getRangeDuration(range) == range.end - range.start

rangesOverlap(a, b) == a.start < b.end /\ b.start < a.end

mergeRanges_IncomingPriority(a, b) ==
  [start |-> Min(a.start, b.start),
   end |-> Max(a.end, b.end),
   priority |-> b.priority,
   label |-> IF a.label # << >> THEN a.label ELSE b.label]

\* a.label || b.label: the empty string is falsy.
mergeRanges(a, b) ==
  [start |-> Min(a.start, b.start),
   end |-> Max(a.end, b.end),
   priority |-> Max(a.priority, b.priority),
   label |-> IF a.label # << >> THEN a.label ELSE b.label]

(***************************************************************************)
(* domain/models/EditorialDecision                                         *)
(***************************************************************************)
DECISION_PRIORITIES ==
  [highlight |-> Tenths(10), keep |-> Tenths(5), discard |-> Tenths(0)]

DISCARD_LABELS ==
  << << "t", "o", "i", "l", "e", "t" >>,
     << "b", "a", "t", "h", "r", "o", "o", "m" >>,
     << "r", "e", "s", "t", "r", "o", "o", "m" >>,
     << "u", "r", "i", "n", "a", "l" >>,
     << "s", "h", "o", "w", "e", "r", " ", "c", "u", "r", "t", "a", "i", "n" >>,
     << "b", "a", "t", "h", "t", "u", "b" >>,
     << "m", "e", "d", "i", "c", "i", "n", "e", " ", "c", "a", "b", "i", "n", "e", "t" >> >>

BOOST_LABELS ==
  << << "k", "i", "t", "c", "h", "e", "n" >>,
     << "p", "o", "o", "l" >>,
     << "s", "w", "i", "m", "m", "i", "n", "g", " ", "p", "o", "o", "l" >>,
     << "p", "a", "t", "i", "o" >>,
     << "b", "a", "c", "k", "y", "a", "r", "d" >>,
     << "l", "i", "v", "i", "n", "g", " ", "r", "o", "o", "m" >>,
     << "d", "i", "n", "i", "n", "g", " ", "r", "o", "o", "m" >>,
     << "f", "i", "r", "e", "p", "l", "a", "c", "e" >>,
     << "o", "c", "e", "a", "n" >>,
     << "m", "o", "u", "n", "t", "a", "i", "n" >>,
     << "g", "a", "r", "d", "e", "n" >>,
     << "b", "a", "l", "c", "o", "n", "y" >>,
     << "t", "e", "r", "r", "a", "c", "e" >> >>

\* labels.some(label => VOCABULARY.some(v => label.toLowerCase().includes(v.toLowerCase())))
shouldDiscard(labels) ==
  \E i \in 1..Len(labels) : \E j \in 1..Len(DISCARD_LABELS) :
    Includes(ToLowerCase(labels[i]), ToLowerCase(DISCARD_LABELS[j]))

shouldBoost_Equality(labels) ==
  \E i \in 1..Len(labels) : \E j \in 1..Len(BOOST_LABELS) :
    ToLowerCase(labels[i]) = ToLowerCase(BOOST_LABELS[j])

shouldBoost(labels) ==
  \E i \in 1..Len(labels) : \E j \in 1..Len(BOOST_LABELS) :
    Includes(ToLowerCase(labels[i]), ToLowerCase(BOOST_LABELS[j]))

(***************************************************************************)
(* domain/logic/DecisionMatrix                                             *)
(***************************************************************************)
DEFAULT_CONFIG ==
  [aestheticThreshold |-> 3, confidenceThreshold |-> 3, realEstateMode |-> TRUE]

\* (aestheticScore * 100).toFixed(0) + "%", the score being in tenths.
ScorePercent(aestheticScore) == ToFixed0((aestheticScore * 100) \div 10) \o << "%" >>

TrustedLabels_Strict(frame, config) ==
  IF frame.confidence > config.confidenceThreshold THEN frame.labels ELSE << >>

\* The labels a frame's confidence lets the rules see.
TrustedLabels(frame, config) ==
  IF frame.confidence >= config.confidenceThreshold THEN frame.labels ELSE << >>

\* The four verdicts decideFrame can return.
BlacklistVerdict(frame, trustedLabels) ==
  [timestamp |-> frame.timestamp,
   decision |-> "discard",
   reason |-> << "Contains blacklisted content: " >> \o Join(trustedLabels, << ", " >>),
   priority |-> 0]

BoostVerdict_KeepWeight(frame, trustedLabels) ==
  [timestamp |-> frame.timestamp,
   decision |-> "highlight",
   reason |-> << "Premium content: " >> \o Join(trustedLabels, << ", " >>),
   priority |-> DECISION_PRIORITIES.keep + frame.aestheticScore]

BoostVerdict(frame, trustedLabels) ==
  [timestamp |-> frame.timestamp,
   decision |-> "highlight",
   reason |-> << "Premium content: " >> \o Join(trustedLabels, << ", " >>),
   priority |-> DECISION_PRIORITIES.highlight + frame.aestheticScore * 2]

KeepVerdict(frame) ==
  [timestamp |-> frame.timestamp,
   decision |-> "keep",
   reason |-> << "High aesthetic score: " >> \o ScorePercent(frame.aestheticScore),
   priority |-> DECISION_PRIORITIES.keep + frame.aestheticScore]

DefaultVerdict(frame) ==
  [timestamp |-> frame.timestamp,
   decision |-> "discard",
   reason |-> << "Low aesthetic score: " >> \o ScorePercent(frame.aestheticScore),
   priority |-> 0]

decideFrame_BoostFirst(frame, config) ==
  LET trustedLabels == TrustedLabels(frame, config)
  IN  IF config.realEstateMode /\ shouldBoost(trustedLabels)
        THEN BoostVerdict(frame, trustedLabels)
      ELSE IF config.realEstateMode /\ shouldDiscard(trustedLabels)
        THEN BlacklistVerdict(frame, trustedLabels)
      ELSE IF frame.aestheticScore >= config.aestheticThreshold
        THEN KeepVerdict(frame)
      ELSE DefaultVerdict(frame)

decideFrame(frame, config) ==
  LET trustedLabels == TrustedLabels(frame, config)
  IN  IF config.realEstateMode /\ shouldDiscard(trustedLabels)
        THEN BlacklistVerdict(frame, trustedLabels)
      ELSE IF config.realEstateMode /\ shouldBoost(trustedLabels)
        THEN BoostVerdict(frame, trustedLabels)
      ELSE IF frame.aestheticScore >= config.aestheticThreshold
        THEN KeepVerdict(frame)
      ELSE DefaultVerdict(frame)

(***************************************************************************)
(* domain/logic/RangeCoalescer                                             *)
(***************************************************************************)
DEFAULT_COALESCER_CONFIG ==
  [frameWindow |-> Tenths(1), mergeGap |-> 5, minSegmentDuration |-> Tenths(1)]

\* The sweep's test: the next range overlaps the last one or lies within
\* mergeGap of it.
WithinMergeGap_Strict(current, last, mergeGap) ==
  current.start < last.end + mergeGap

WithinMergeGap_FromStart(current, last, mergeGap) ==
  current.start <= last.start + mergeGap

WithinMergeGap_BothSides(current, last, mergeGap) ==
  current.start - mergeGap <= last.end + mergeGap

WithinMergeGap(current, last, mergeGap) ==
  current.start <= last.end + mergeGap

\* One iteration of the sweep's loop body per call, i being the index of
\* `current` in `sorted` (1-based).
RECURSIVE MergeSweep(_, _, _, _)
MergeSweep(sorted, i, result, mergeGap) ==
  IF i > Len(sorted) THEN result
  ELSE LET current == sorted[i]
           last == result[Len(result)]
       IN  IF WithinMergeGap(current, last, mergeGap)
           THEN MergeSweep(sorted, i + 1,
                           [result EXCEPT ![Len(result)] = mergeRanges(last, current)],
                           mergeGap)
           ELSE MergeSweep(sorted, i + 1, Append(result, current), mergeGap)

mergeAdjacentRanges(ranges, mergeGap) ==
  IF Len(ranges) <= 1 THEN ranges
  ELSE LET sorted == SortByKey(ranges, [i \in 1..Len(ranges) |-> ranges[i].start])
       IN  MergeSweep(sorted, 2, << sorted[1] >>, mergeGap)

\* merged.filter(r => (r.end - r.start) >= config.minSegmentDuration)
LongEnough_EndOnly(r, config) == r.end >= config.minSegmentDuration

LongEnough_Longer(r, config) == (r.end - r.start) > config.minSegmentDuration

LongEnough(r, config) == (r.end - r.start) >= config.minSegmentDuration

\* keepDecisions.map(d => createTimeRange(...)): the array of ranges, or the
\* error of the first verdict whose range cannot be created.
InitialRanges(keepDecisions, config) ==
  LET created == [i \in 1..Len(keepDecisions) |->
                    createTimeRange(keepDecisions[i].timestamp,
                                    keepDecisions[i].timestamp + config.frameWindow,
                                    keepDecisions[i].priority,
                                    keepDecisions[i].reason)]
      failed == {i \in 1..Len(keepDecisions) : created[i].threw}
  IN  IF failed # {}
      THEN created[CHOOSE i \in failed : \A j \in failed : i <= j]
      ELSE Returned([i \in 1..Len(keepDecisions) |-> created[i].value])

coalesceToRanges(decisions, config) ==
  IF Len(decisions) = 0 THEN Returned(<< >>)
  ELSE
    LET sorted == SortByKey(decisions,
                            [i \in 1..Len(decisions) |-> decisions[i].timestamp])
        keepDecisions == Filter(sorted,
                                [i \in 1..Len(sorted) |-> sorted[i].decision # "discard"])
    IN  IF Len(keepDecisions) = 0 THEN Returned(<< >>)
        ELSE
          LET initialRanges == InitialRanges(keepDecisions, config)
          IN  IF initialRanges.threw THEN initialRanges
              ELSE
                LET merged == mergeAdjacentRanges(initialRanges.value, config.mergeGap)
                    filtered == Filter(merged,
                                       [i \in 1..Len(merged) |-> LongEnough(merged[i], config)])
                IN  Returned(filtered)

\* The limiter's test: the range still fits the budget.
FitsBudget_OwnDuration(totalDuration, duration, maxDuration) ==
  duration <= maxDuration

FitsBudget(totalDuration, duration, maxDuration) ==
  totalDuration + duration <= maxDuration

\* The limiter's loop, one range of byPriority per call.
RECURSIVE SelectFrom(_, _, _, _, _)
SelectFrom(byPriority, i, selected, totalDuration, maxDuration) ==
  IF i > Len(byPriority) THEN selected
  ELSE LET range == byPriority[i]
           duration == range.end - range.start
       IN  IF FitsBudget(totalDuration, duration, maxDuration)
           THEN SelectFrom(byPriority, i + 1, Append(selected, range),
                           totalDuration + duration, maxDuration)
           ELSE SelectFrom(byPriority, i + 1, selected, totalDuration, maxDuration)

\* [...ranges].sort((a, b) => b.priority - a.priority)
ByPriority_Ascending(ranges) ==
  SortByKey(ranges, [i \in 1..Len(ranges) |-> ranges[i].priority])

ByPriority(ranges) ==
  SortByKey(ranges, [i \in 1..Len(ranges) |-> 0 - ranges[i].priority])

limitByDuration_Unsorted(ranges, maxDuration) ==
  SelectFrom(ByPriority(ranges), 1, << >>, 0, maxDuration)

limitByDuration(ranges, maxDuration) ==
  LET byPriority == ByPriority(ranges)
      selected == SelectFrom(byPriority, 1, << >>, 0, maxDuration)
  IN  SortByKey(selected, [i \in 1..Len(selected) |-> selected[i].start])

\* The value of a JavaScript division a / b, kept exact: a finite quotient is
\* the fraction num / den; a division by zero is Infinity, -Infinity or NaN.
Whole(n) == [kind |-> "finite", num |-> n, den |-> 1]
Divide(a, b) ==
  IF b # 0 THEN [kind |-> "finite", num |-> a, den |-> b]
  ELSE IF a > 0 THEN [kind |-> "Infinity", num |-> 1, den |-> 0]
  ELSE IF a < 0 THEN [kind |-> "-Infinity", num |-> 0 - 1, den |-> 0]
  ELSE [kind |-> "NaN", num |-> 0, den |-> 0]

\* x === y on two such values (NaN equals nothing).
SameNumber(x, y) ==
  \/ x.kind = "finite" /\ y.kind = "finite" /\ x.num * y.den = y.num * x.den
  \/ x.kind = y.kind /\ x.kind \in {"Infinity", "-Infinity"}

\* ranges.reduce((sum, r) => sum + (r.end - r.start), 0)
RECURSIVE ReduceDurations(_, _, _)
ReduceDurations(ranges, i, sum) ==
  IF i > Len(ranges) THEN sum
  ELSE ReduceDurations(ranges, i + 1, sum + (ranges[i].end - ranges[i].start))

\* The guard of the division in getRangeStats.
RatioIsDefined(videoDuration, totalKeptDuration) == videoDuration > 0

getRangeStats(ranges, videoDuration) ==
  LET totalKeptDuration == ReduceDurations(ranges, 1, 0)
      totalDiscardedDuration == videoDuration - totalKeptDuration
  IN  [segmentCount |-> Len(ranges),
       totalKeptDuration |-> totalKeptDuration,
       totalDiscardedDuration |-> totalDiscardedDuration,
       compressionRatio |->
         IF RatioIsDefined(videoDuration, totalKeptDuration)
         THEN Divide(videoDuration, totalKeptDuration)
         ELSE Whole(1)]

(***************************************************************************)
(* domain/logic/DecisionMatrix: getDecisionStats                           *)
(***************************************************************************)
\* x * n and n + x on the value of a division, n being a whole number.
Times(x, n) == IF x.kind = "finite" THEN [x EXCEPT !.num = @ * n] ELSE x
Plus(n, x) == IF x.kind = "finite" THEN [x EXCEPT !.num = @ + n * x.den] ELSE x

\* Math.ceil of a finite quotient.
Ceil(x) ==
  IF x.den > 0 THEN 0 - ((0 - x.num) \div x.den) ELSE 0 - (x.num \div (0 - x.den))

\* decisions.filter(d => d.decision === kind).length
CountOf(decisions, kind) ==
  Cardinality({i \in 1..Len(decisions) : decisions[i].decision = kind})

\* frames.map(frame => decideFrame(frame, config))
processFrameBatch(frames, config) ==
  [i \in 1..Len(frames) |-> decideFrame(frames[i], config)]

getDecisionStats(decisions) ==
  LET keep == CountOf(decisions, "keep")
      highlight == CountOf(decisions, "highlight")
      discard == CountOf(decisions, "discard")
  IN  [total |-> Len(decisions),
       keep |-> keep,
       highlight |-> highlight,
       discard |-> discard,
       keepPercentage |->
         IF Len(decisions) > 0
         THEN Times(Divide(keep + highlight, Len(decisions)), 100)
         ELSE Whole(0)]

(***************************************************************************)
(* domain/models/FrameMetadata, services/VisionAnalyst,                    *)
(* services/VideoIngestService                                             *)
(***************************************************************************)
\* { aestheticScore: 0, labels: [], confidence: 0, ...partial }; the analyst
\* always passes the three of them.
createFrameMetadata(partial) ==
  [timestamp |-> partial.timestamp,
   frameIndex |-> partial.frameIndex,
   videoDuration |-> partial.videoDuration,
   labels |-> partial.labels,
   confidence |-> partial.confidence,
   aestheticScore |-> partial.aestheticScore]

\* The singleton of VisionAnalyst before any load: no model, no labels.
InitialModelState == [isLoaded |-> FALSE, model |-> "null", labels |-> "empty"]

\* modelState after tf.loadGraphModel has resolved, and after the labels
\* have been read.
WithModel(state) == [state EXCEPT !.model = "graphModel"]
WithLabels(state) == [state EXCEPT !.labels = "ImageNetLabels", !.isLoaded = TRUE]

isModelLoaded(state) == state.isLoaded

\* The guard of analyzeFrame: the model has to be loaded first.
NeedsLoad(state) == ~state.isLoaded \/ state.model = "null"

DEFAULT_INGEST_CONFIG ==
  [strideSeconds |-> Tenths(1), maxFrames |-> 0, generateThumbnails |-> TRUE,
   thumbnailWidth |-> 160]

\* The test of the extraction loop and of its frame limit.
HasNextFrame_NoLimit(currentTime, frameIndex, duration, config) ==
  currentTime < duration

HasNextFrame(currentTime, frameIndex, duration, config) ==
  /\ currentTime < duration
  /\ ~(config.maxFrames > 0 /\ frameIndex >= config.maxFrames)

(***************************************************************************)
(* services/AgenticBrain                                                   *)
(***************************************************************************)
DEFAULT_PIPELINE_CONFIG ==
  [ingest |-> DEFAULT_INGEST_CONFIG,
   decision |-> DEFAULT_CONFIG,
   coalescer |-> DEFAULT_COALESCER_CONFIG,
   maxOutputDuration |-> 0]

\* Math.ceil(videoMeta.duration / this.config.ingest.strideSeconds)
ExpectedFrames_Floor(duration, strideSeconds) == duration \div strideSeconds

ExpectedFrames(duration, strideSeconds) == Ceil(Divide(duration, strideSeconds))

\* The progress values of the two per-frame events.
ExtractingProgress_Remaining(frameCount, expectedFrames) ==
  Times(Divide(expectedFrames - frameCount, expectedFrames), 50)

ExtractingProgress(frameCount, expectedFrames) ==
  Times(Divide(frameCount, expectedFrames), 50)
AnalyzingProgress(frameCount, expectedFrames) ==
  Plus(50, Times(Divide(frameCount, expectedFrames), 40))

\* What a run leaves behind, in the order it happened: the progress events
\* handed to onProgress, the calls made to the collaborators (TensorFlow, the
\* network, the video element, the canvas), the errors they raised, the raw
\* frames yielded by the frame source and their release.
Reported(stage, progress, frame) ==
  [kind |-> "report", name |-> stage, progress |-> progress, frame |-> frame,
   error |-> << >>]
Called(collaborator, frame) ==
  [kind |-> "call", name |-> collaborator, progress |-> Whole(0), frame |-> frame,
   error |-> << >>]
Raised(collaborator, error) ==
  [kind |-> "raise", name |-> collaborator, progress |-> Whole(0), frame |-> 0,
   error |-> error]
Yielded(frameIndex) ==
  [kind |-> "yield", name |-> "rawFrame", progress |-> Whole(0), frame |-> frameIndex,
   error |-> << >>]
Resolved(collaborator, caller) ==
  [kind |-> "resolve", name |-> collaborator, progress |-> Whole(0), frame |-> caller,
   error |-> << >>]
Released(frameIndex) ==
  [kind |-> "release", name |-> "rawFrame", progress |-> Whole(0), frame |-> frameIndex,
   error |-> << >>]

\* An awaited promise that rejects: process has no try / catch, so the error
\* is the rejection of process itself.
Propagate_Wrapped(error) == Thrown(<< "Pipeline failed" >>)

Propagate(error) == Thrown(error)

\* ranges = coalesceToRanges(...); if (maxOutputDuration > 0) ranges =
\* limitByDuration(ranges, maxOutputDuration)
FinalRanges_AlwaysLimited(coalesced, maxOutputDuration) ==
  limitByDuration(coalesced, maxOutputDuration)

FinalRanges(coalesced, maxOutputDuration) ==
  IF maxOutputDuration > 0 THEN limitByDuration(coalesced, maxOutputDuration)
  ELSE coalesced

\* The calls process makes to the limiter.
LimiterCalls(maxOutputDuration) ==
  IF maxOutputDuration > 0 THEN << Called("limitByDuration", 0) >> ELSE << >>

\* The PipelineResult assembled at the end of process.
PipelineResult(ranges, frames, decisions, videoMeta) ==
  LET decisionStats == getDecisionStats(decisions)
      rangeStats == getRangeStats(ranges, videoMeta.duration)
  IN  [ranges |-> ranges,
       frames |-> frames,
       decisions |-> decisions,
       stats |-> [videoDuration |-> videoMeta.duration,
                  framesAnalyzed |-> decisionStats.total,
                  framesKept |-> decisionStats.keep + decisionStats.highlight,
                  framesDiscarded |-> decisionStats.discard,
                  outputDuration |-> rangeStats.totalKeptDuration,
                  compressionRatio |-> rangeStats.compressionRatio]]

(***************************************************************************)
(* ui/Dashboard                                                            *)
(***************************************************************************)
\* null, in the fields that hold an object or nothing.
Null == [null |-> TRUE]

\* The fields of a Dashboard after its constructor, and no toast on the page.
InitialDashboard ==
  [state |-> "idle", currentFile |-> Null, result |-> Null, currentFileUrl |-> "null",
   previewMode |-> "edited", playbackRanges |-> << >>, playbackIndex |-> 0,
   toasts |-> << >>]

releaseCurrentFileUrl(d) == [d EXCEPT !.currentFileUrl = "null"]

setCurrentFile(d, file) ==
  [releaseCurrentFileUrl(d) EXCEPT
     !.currentFile = file, !.result = Null, !.previewMode = "edited",
     !.playbackRanges = << >>, !.playbackIndex = 0]

\* getCurrentFileUrl, as the views call it: the URL is created when there is
\* a file and no URL yet.
WithFileUrl(d) ==
  IF d.currentFile # Null /\ d.currentFileUrl = "null"
  THEN [d EXCEPT !.currentFileUrl = "blob"]
  ELSE d

\* render(): the processing and the results view load the video of the file;
\* the results view, shown only when there is a result, sets up the playback
\* of its ranges.
render(d) ==
  CASE d.state = "processing" -> WithFileUrl(d)
    [] d.state = "results" /\ d.result # Null ->
         [WithFileUrl(d) EXCEPT !.playbackRanges = d.result.ranges, !.playbackIndex = 0]
    [] OTHER -> d

showToast(d, message, type) ==
  [d EXCEPT !.toasts = Append(@, [type |-> type, message |-> message])]

\* handleFileUpload up to the call of brain.process.
BeginsProcessing(d, file) ==
  render([setCurrentFile(d, file) EXCEPT !.state = "processing"])

\* handleFileUpload after brain.process has returned the result.
ShowsResult(d, result) ==
  render([d EXCEPT !.result = result, !.state = "results"])

\* The catch block of handleFileUpload.
CatchesProcessingError_ShowsResults(d, error) ==
  render([d EXCEPT !.state = "results"])

CatchesProcessingError(d, error) ==
  render([showToast(d, << "Processing failed: " >> \o error, "error")
            EXCEPT !.state = "idle"])

\* The click on "start over" in the results view.
StartsOver(d) ==
  render([releaseCurrentFileUrl([d EXCEPT !.state = "idle"])
            EXCEPT !.currentFile = Null, !.result = Null])

(***************************************************************************)
(* State: one call of one of the functions.  `op` names the function,      *)
(* `input` holds its arguments, `pc` is "called" until the function has    *)
(* run and "returned" after, and `output` is then what it returned (or the *)
(* error it threw).  A call of process runs from one await to the next:    *)
(* its `pc` names the promise it is waiting for.  `modelState` is the      *)
(* singleton of VisionAnalyst, `locals` the local variables of process,    *)
(* `source` those of the extraction loop, `payloads` the raw frames        *)
(* created so far with the number of times each was closed, and `log`      *)
(* what the run did, in order.  `callers` are the pieces of code of the    *)
(* page that call into VisionAnalyst side by side, each with the promise   *)
(* it is waiting for.                                                      *)
(***************************************************************************)
VARIABLES op, input, pc, output, modelState, locals, source, payloads, log, callers,
          dashboard

runVars == << modelState, locals, source, payloads, log, callers, dashboard >>
vars == << op, input, pc, output, modelState, locals, source, payloads, log, callers,
          dashboard >>

NoOutput == [pending |-> TRUE]

\* Bounds of the input sets.
MaxLabels == 2
MaxVerdicts == 3
MaxRanges == 3
MaxCallers == 2
MaxToasts == 2

SeqsUpTo(S, n) == UNION {[1..k -> S] : k \in 0..n}

\* ---- inputs of createTimeRange
RangeBounds == {0 - 10, 0 - 1, 0, 5, 10, 20}
RangePriorities == {DefaultPriority, 120}
RangeLabels == {<< >>, << "intro" >>}

CreateTimeRangeInputs ==
  [start : RangeBounds, end : RangeBounds, priority : RangePriorities, label : RangeLabels]

\* ---- inputs of decideFrame
LabelPool ==
  { << "T", "o", "i", "l", "e", "t" >>,
    << "p", "o", "o", "l", "s", "i", "d", "e" >>,
    << "K", "I", "T", "C", "H", "E", "N" >>,
    << "b", "a", "t", "h" >>,
    << "s", "o", "f", "a" >> }
Scores == {0, 2, 3, 6, 10}
Confidences == {2, 3, 5}
FrameTimestamps == {0, 10}

Frames ==
  [timestamp : FrameTimestamps, aestheticScore : Scores, labels : SeqsUpTo(LabelPool, MaxLabels),
   confidence : Confidences, frameIndex : {0}, videoDuration : {Tenths(10)}]

DecisionConfigs ==
  [aestheticThreshold : {3, 6}, confidenceThreshold : {3, 5}, realEstateMode : BOOLEAN]

DecideFrameInputs == [frame : Frames, config : DecisionConfigs]

\* ---- inputs of coalesceToRanges
VerdictTimestamps == {0, 10, 13}
VerdictKinds ==
  { [decision |-> "keep", priority |-> 50, reason |-> << >>],
    [decision |-> "keep", priority |-> 52, reason |-> << "k" >>],
    [decision |-> "highlight", priority |-> 120, reason |-> << "h" >>],
    [decision |-> "discard", priority |-> 0, reason |-> << "d" >>] }
Verdict(t, kind) ==
  [timestamp |-> t, decision |-> kind.decision, reason |-> kind.reason,
   priority |-> kind.priority]
Verdicts == {Verdict(t, kind) : t \in VerdictTimestamps, kind \in VerdictKinds}

CoalescerConfigs ==
  [frameWindow : {7, 10}, mergeGap : {0, 3, 5}, minSegmentDuration : {0, 10, 20}]

\* keep@0, keep@1, discard@2, highlight@3 (priority 12), keep@4 (priority 5.2)
MergeExample ==
  << [timestamp |-> 0, decision |-> "keep", reason |-> << "k0" >>, priority |-> 50],
     [timestamp |-> 10, decision |-> "keep", reason |-> << "k1" >>, priority |-> 50],
     [timestamp |-> 20, decision |-> "discard", reason |-> << "d2" >>, priority |-> 0],
     [timestamp |-> 30, decision |-> "highlight", reason |-> << "h3" >>, priority |-> 120],
     [timestamp |-> 40, decision |-> "keep", reason |-> << "k4" >>, priority |-> 52] >>

\* The documented example; overlapping windows under a negative mergeGap; a
\* verdict before the start of the video; a frame window of no or negative
\* length.
EdgeCoalesceInputs ==
  { [decisions |-> MergeExample, config |-> DEFAULT_COALESCER_CONFIG],
    [decisions |-> << [timestamp |-> 10, decision |-> "keep", reason |-> << "k" >>,
                       priority |-> 50],
                      [timestamp |-> 13, decision |-> "keep", reason |-> << "k" >>,
                       priority |-> 50] >>,
     config |-> [frameWindow |-> 10, mergeGap |-> 0 - 8, minSegmentDuration |-> 10]],
    [decisions |-> << [timestamp |-> 0 - 10, decision |-> "keep", reason |-> << "k" >>,
                       priority |-> 50] >>,
     config |-> DEFAULT_COALESCER_CONFIG],
    [decisions |-> << [timestamp |-> 0, decision |-> "keep", reason |-> << "k" >>,
                       priority |-> 50] >>,
     config |-> [frameWindow |-> 0, mergeGap |-> 5, minSegmentDuration |-> 0]],
    [decisions |-> << [timestamp |-> 0, decision |-> "keep", reason |-> << "k" >>,
                       priority |-> 50] >>,
     config |-> [frameWindow |-> 0 - 10, mergeGap |-> 5, minSegmentDuration |-> 0]] }

CoalesceInputs ==
  [decisions : SeqsUpTo(Verdicts, MaxVerdicts), config : CoalescerConfigs]
    \cup EdgeCoalesceInputs

\* ---- inputs of coalesceToRanges whose windows overlap, touch and lie apart
TiledTimestamps == {0, 7, 13, 30}
TiledKinds ==
  { [decision |-> "keep", priority |-> 50, reason |-> << >>],
    [decision |-> "highlight", priority |-> 120, reason |-> << "h" >>] }
TiledVerdicts ==
  {Verdict(t, kind) : t \in TiledTimestamps, kind \in TiledKinds}
    \cup {Verdict(13, [decision |-> "discard", priority |-> 0, reason |-> << "d" >>])}
TiledInputs == [decisions : SeqsUpTo(TiledVerdicts, MaxVerdicts), config : CoalescerConfigs]

\* ---- inputs of coalesceToRanges sampled at a stride: the frame window is
\* ---- the stride, or is not
StrideTimestamps == {0, 10, 20, 40}
StrideKinds ==
  { [decision |-> "keep", priority |-> 50, reason |-> << "k" >>],
    [decision |-> "highlight", priority |-> 120, reason |-> << "h" >>],
    [decision |-> "discard", priority |-> 0, reason |-> << "d" >>] }
StrideVerdicts == {Verdict(t, kind) : t \in StrideTimestamps, kind \in StrideKinds}
StrideConfigs ==
  [frameWindow : {Tenths(1), Tenths(2)}, mergeGap : {0, 5, 9},
   minSegmentDuration : {0, Tenths(1)}]
StrideInputs == [decisions : SeqsUpTo(StrideVerdicts, MaxVerdicts), config : StrideConfigs]

\* ---- inputs of mergeAdjacentRanges
SweepRanges ==
  {[start |-> s, end |-> s + d, priority |-> p, label |-> << >>] :
     s \in {0, 10, 13}, d \in {7, 10}, p \in {50, 120}}
SweepInputs == [ranges : SeqsUpTo(SweepRanges, MaxRanges), mergeGap : {0, 2, 3, 5}]

\* ---- inputs of limitByDuration
LimitRanges ==
  {[start |-> s, end |-> s + d, priority |-> p, label |-> << >>] :
     s \in {0, 30}, d \in {0, 10, 20}, p \in {50, 120}}
LimitInputs ==
  [ranges : SeqsUpTo(LimitRanges, MaxRanges), maxDuration : {0 - 10, 0, 10, 20, 30, 40}]

\* ---- inputs of getRangeStats: a 100 s source, an empty source
StatsRanges ==
  {[start |-> s, end |-> s + d, priority |-> 50, label |-> << >>] :
     s \in {0, 300}, d \in {0, 10, 250}}
StatsInputs ==
  [ranges : SeqsUpTo(StatsRanges, MaxRanges), videoDuration : {0, Tenths(100)}]

\* ---- inputs of process: the file, the configuration of the brain, what
\* ---- inference finds in a frame, the errors a collaborator may raise
FileDurations == {0, 15, 30}
IngestConfigs ==
  [strideSeconds : {Tenths(1), Tenths(2)}, maxFrames : {0, 2},
   generateThumbnails : BOOLEAN, thumbnailWidth : {160}]
PipelineConfigs ==
  [ingest : IngestConfigs,
   decision : {DEFAULT_CONFIG},
   coalescer : {DEFAULT_COALESCER_CONFIG,
                [frameWindow |-> Tenths(2), mergeGap |-> 0, minSegmentDuration |-> Tenths(2)]},
   maxOutputDuration : {0 - Tenths(1), 0, Tenths(2)}]
ProcessInputs == [file : [duration : FileDurations], config : PipelineConfigs]

Analyses ==
  { [labels |-> << << "T", "o", "i", "l", "e", "t" >> >>, confidence |-> 5,
     aestheticScore |-> 6],
    [labels |-> << << "K", "I", "T", "C", "H", "E", "N" >> >>, confidence |-> 5,
     aestheticScore |-> 0],
    [labels |-> << << "s", "o", "f", "a" >> >>, confidence |-> 5, aestheticScore |-> 10],
    [labels |-> << << "s", "o", "f", "a" >> >>, confidence |-> 2, aestheticScore |-> 2] }

ExternalErrors == { << "NetworkError" >>, << "TypeError" >> }

\* The singleton as earlier calls in the same page may have left it: never
\* loaded, loaded, or with the model fetched and the labels not.
ModelStates ==
  { InitialModelState, WithModel(InitialModelState),
    WithLabels(WithModel(InitialModelState)) }

(***************************************************************************)
(* Initial states: a call has been made and has not run yet.               *)
(***************************************************************************)
\* process has declared its two arrays and nothing else; no frame exists.
NoLocals ==
  [videoMeta |-> [duration |-> 0], expectedFrames |-> 0, frameCount |-> 0,
   frames |-> << >>, decisions |-> << >>]
NoSource == [currentTime |-> 0, frameIndex |-> 0]

InitCall(name, inputs) ==
  /\ op = name
  /\ input \in inputs
  /\ pc = "called"
  /\ output = NoOutput
  /\ modelState = InitialModelState
  /\ locals = NoLocals
  /\ source = NoSource
  /\ payloads = << >>
  /\ log = << >>
  /\ callers = << >>
  /\ dashboard = InitialDashboard

InitTimeRange == InitCall("createTimeRange", CreateTimeRangeInputs)
InitDecide == InitCall("decideFrame", DecideFrameInputs)
InitCoalesce ==
  \/ InitCall("coalesceToRanges", CoalesceInputs)
  \/ InitCall("mergeAdjacentRanges", SweepInputs)
InitTiled == InitCall("coalesceToRanges", TiledInputs)
InitStride == InitCall("coalesceToRanges", StrideInputs)
InitLimit == InitCall("limitByDuration", LimitInputs)
InitStats == InitCall("getRangeStats", StatsInputs)

InitProcess ==
  /\ op = "process"
  /\ input \in ProcessInputs
  /\ pc = "called"
  /\ output = NoOutput
  /\ modelState \in ModelStates
  /\ locals = NoLocals
  /\ source = NoSource
  /\ payloads = << >>
  /\ log = << >>
  /\ callers = << >>
  /\ dashboard = InitialDashboard

\* The page has loaded: nothing has called into VisionAnalyst yet.
NotCalling == [call |-> "none", awaiting |-> "nothing"]

\* The page has loaded and built its Dashboard, which shows the upload view.
InitDashboard ==
  /\ op = "Dashboard"
  /\ input = [containerId |-> "app"]
  /\ pc = "idle"
  /\ output = NoOutput
  /\ modelState = InitialModelState
  /\ locals = NoLocals
  /\ source = NoSource
  /\ payloads = << >>
  /\ log = << >>
  /\ callers = << >>
  /\ dashboard = InitialDashboard

InitAnalyst ==
  /\ op = "VisionAnalyst"
  /\ input = [callers |-> MaxCallers]
  /\ pc = "called"
  /\ output = NoOutput
  /\ modelState = InitialModelState
  /\ locals = NoLocals
  /\ source = NoSource
  /\ payloads = << >>
  /\ log = << >>
  /\ callers = [c \in 1..MaxCallers |-> NotCalling]
  /\ dashboard = InitialDashboard

Init ==
  \/ InitTimeRange \/ InitDecide \/ InitCoalesce \/ InitTiled \/ InitLimit
  \/ InitStats \/ InitProcess \/ InitAnalyst \/ InitDashboard \/ InitStride

(***************************************************************************)
(* Actions: the called function runs to its return or its throw.           *)
(***************************************************************************)
Return(result) ==
  /\ pc = "called"
  /\ pc' = "returned"
  /\ output' = result
  /\ UNCHANGED << op, input >>
  /\ UNCHANGED runVars

CreateTimeRange ==
  /\ op = "createTimeRange"
  /\ Return(createTimeRange(input.start, input.end, input.priority, input.label))

DecideFrame ==
  /\ op = "decideFrame"
  /\ Return(Returned(decideFrame(input.frame, input.config)))

CoalesceToRanges ==
  /\ op = "coalesceToRanges"
  /\ Return(coalesceToRanges(input.decisions, input.config))

MergeAdjacentRanges ==
  /\ op = "mergeAdjacentRanges"
  /\ Return(Returned(mergeAdjacentRanges(input.ranges, input.mergeGap)))

LimitByDuration ==
  /\ op = "limitByDuration"
  /\ Return(Returned(limitByDuration(input.ranges, input.maxDuration)))

GetRangeStats ==
  /\ op = "getRangeStats"
  /\ Return(Returned(getRangeStats(input.ranges, input.videoDuration)))

(***************************************************************************)
(* Actions of process: each runs the code from one await to the next.      *)
(***************************************************************************)
\* The errors with which the awaited promise can reject.
ErrorsAt(awaited) ==
  IF awaited \in {"process: getVideoMetadata", "ingestVideo: getVideoMetadata",
                  "extractFrames: getVideoMetadata"}
    THEN { << "Failed to load video metadata" >> }
  ELSE IF awaited = "extractFrames: video.onloadeddata"
    THEN { << "Failed to load video" >> }
  ELSE IF awaited \in {"loadModel: tf.setBackend", "loadModel: tf.loadGraphModel",
                       "loadModel: fetch", "extractFrames: createImageBitmap",
                       "ingestVideo: createThumbnail", "process: analyzeFrame"}
    THEN ExternalErrors
  ELSE {}

\* The name of the collaborator behind the awaited promise.
Collaborator(awaited) ==
  CASE awaited = "loadModel: tf.setBackend" -> "tf.setBackend"
    [] awaited = "loadModel: tf.loadGraphModel" -> "tf.loadGraphModel"
    [] awaited = "loadModel: fetch" -> "fetch"
    [] awaited = "process: getVideoMetadata" -> "getVideoMetadata"
    [] awaited = "ingestVideo: getVideoMetadata" -> "getVideoMetadata"
    [] awaited = "extractFrames: getVideoMetadata" -> "getVideoMetadata"
    [] awaited = "extractFrames: video.onloadeddata" -> "video.load"
    [] awaited = "extractFrames: video.onseeked" -> "video.seek"
    [] awaited = "extractFrames: createImageBitmap" -> "createImageBitmap"
    [] awaited = "ingestVideo: createThumbnail" -> "createThumbnail"
    [] awaited = "process: analyzeFrame" -> "analyzeFrame"

\* process continues after the model is known to be loaded: it reports and
\* asks for the metadata of the file.
AsksForMetadata(sofar) ==
  /\ log' = sofar \o << Reported("loading", Whole(100), 0),
                        Called("getVideoMetadata", 0) >>
  /\ pc' = "process: getVideoMetadata"

\* process(file) is called: it reports, and loads the model unless
\* isModelLoaded().
ProcessBegins ==
  /\ op = "process" /\ pc = "called"
  /\ LET sofar == log \o << Reported("loading", Whole(0), 0) >>
     IN  IF isModelLoaded(modelState)
         THEN AsksForMetadata(sofar)
         ELSE /\ log' = sofar \o << Called("loadModel", 0), Called("tf.setBackend", 0) >>
              /\ pc' = "loadModel: tf.setBackend"
  /\ UNCHANGED << op, input, output, modelState, locals, source, payloads, callers, dashboard >>

\* loadModel: the backend is set and ready; the model is asked for.
BackendIsReady ==
  /\ op = "process" /\ pc = "loadModel: tf.setBackend"
  /\ log' = Append(log, Called("tf.loadGraphModel", 0))
  /\ pc' = "loadModel: tf.loadGraphModel"
  /\ UNCHANGED << op, input, output, modelState, locals, source, payloads, callers, dashboard >>

\* loadModel: the model has arrived; the labels are asked for.
ModelIsFetched ==
  /\ op = "process" /\ pc = "loadModel: tf.loadGraphModel"
  /\ modelState' = WithModel(modelState)
  /\ log' = Append(log, Called("fetch", 0))
  /\ pc' = "loadModel: fetch"
  /\ UNCHANGED << op, input, output, locals, source, payloads, callers, dashboard >>

\* loadModel: the labels have arrived, the model is loaded; process continues.
LabelsAreFetched ==
  /\ op = "process" /\ pc = "loadModel: fetch"
  /\ modelState' = WithLabels(modelState)
  /\ AsksForMetadata(log)
  /\ UNCHANGED << op, input, output, locals, source, payloads, callers, dashboard >>

\* process has the metadata: it computes expectedFrames and starts to iterate
\* ingestVideo, which asks for the metadata itself.
MetadataIsRead ==
  /\ op = "process" /\ pc = "process: getVideoMetadata"
  /\ locals' = [locals EXCEPT
                  !.videoMeta = [duration |-> input.file.duration],
                  !.expectedFrames =
                     ExpectedFrames(input.file.duration, input.config.ingest.strideSeconds),
                  !.frameCount = 0]
  /\ log' = Append(log, Called("getVideoMetadata", 0))
  /\ pc' = "ingestVideo: getVideoMetadata"
  /\ UNCHANGED << op, input, output, modelState, source, payloads, callers, dashboard >>

\* ingestVideo has the metadata: it starts to iterate extractFrames, which
\* asks for the metadata once more.
IngestBegins ==
  /\ op = "process" /\ pc = "ingestVideo: getVideoMetadata"
  /\ log' = Append(log, Called("getVideoMetadata", 0))
  /\ pc' = "extractFrames: getVideoMetadata"
  /\ UNCHANGED << op, input, output, modelState, locals, source, payloads, callers, dashboard >>

\* extractFrames has the metadata: it creates the video element and waits
\* for its data.
ExtractionBegins ==
  /\ op = "process" /\ pc = "extractFrames: getVideoMetadata"
  /\ log' = Append(log, Called("video.load", 0))
  /\ pc' = "extractFrames: video.onloadeddata"
  /\ UNCHANGED << op, input, output, modelState, locals, source, payloads, callers, dashboard >>

\* The frame source has ended, and with it the loop of process: process
\* reports, builds the ranges and the statistics, reports and returns.
Finishes(loc, sofar) ==
  LET coalesced == coalesceToRanges(loc.decisions, input.config.coalescer)
      deciding == sofar \o << Reported("deciding", Whole(95), 0),
                              Called("coalesceToRanges", 0) >>
  IN  /\ pc' = "returned"
      /\ IF coalesced.threw
         THEN /\ log' = deciding
              /\ output' = coalesced
         ELSE /\ log' = deciding \o LimiterCalls(input.config.maxOutputDuration)
                                 \o << Reported("complete", Whole(100), 0) >>
              /\ output' =
                   Returned(PipelineResult(
                     FinalRanges(coalesced.value, input.config.maxOutputDuration),
                     loc.frames, loc.decisions, loc.videoMeta))

\* The extraction loop tests its condition with the values `src` of its
\* variables: it seeks the next frame, or it ends and releases the video.
SeeksOrFinishes(src, loc, sofar) ==
  IF HasNextFrame(src.currentTime, src.frameIndex, input.file.duration,
                  input.config.ingest)
  THEN /\ log' = Append(sofar, Called("video.seek", src.frameIndex))
       /\ pc' = "extractFrames: video.onseeked"
       /\ output' = output
  ELSE Finishes(loc, Append(sofar, Called("URL.revokeObjectURL", 0)))

\* The video has its data: the loop starts at frame 0, time 0.
VideoIsLoaded ==
  /\ op = "process" /\ pc = "extractFrames: video.onloadeddata"
  /\ source' = [currentTime |-> 0, frameIndex |-> 0]
  /\ SeeksOrFinishes(source', locals, log)
  /\ UNCHANGED << op, input, modelState, locals, payloads, callers, dashboard >>

\* The seek is done: the frame is drawn and a bitmap of it asked for.
FrameIsSought ==
  /\ op = "process" /\ pc = "extractFrames: video.onseeked"
  /\ log' = Append(log, Called("createImageBitmap", source.frameIndex))
  /\ pc' = "extractFrames: createImageBitmap"
  /\ UNCHANGED << op, input, output, modelState, locals, source, payloads, callers, dashboard >>

\* The two reports process makes for a frame before it analyzes it.
FrameReports_AnalyzingFirst(frameCount, expectedFrames) ==
  << Reported("analyzing", AnalyzingProgress(frameCount, expectedFrames), frameCount),
     Reported("extracting", ExtractingProgress(frameCount, expectedFrames), frameCount) >>

FrameReports(frameCount, expectedFrames) ==
  << Reported("extracting", ExtractingProgress(frameCount, expectedFrames), frameCount),
     Reported("analyzing", AnalyzingProgress(frameCount, expectedFrames), frameCount) >>

\* ingestVideo yields the frame to process: process counts it, reports twice
\* and hands the raw frame to analyzeFrame.
FrameIsDelivered(sofar) ==
  LET frameCount == locals.frameCount + 1
  IN  /\ locals' = [locals EXCEPT !.frameCount = frameCount]
      /\ log' = sofar \o FrameReports(frameCount, locals.expectedFrames)
                       \o << Called("analyzeFrame", source.frameIndex) >>
      /\ pc' = "process: analyzeFrame"

\* The bitmap exists: extractFrames yields it to ingestVideo, which makes a
\* thumbnail first if configured to.
FrameIsGrabbed ==
  /\ op = "process" /\ pc = "extractFrames: createImageBitmap"
  /\ payloads' = Append(payloads, [frameIndex |-> source.frameIndex,
                                   timestamp |-> source.currentTime, closed |-> 0])
  /\ LET sofar == Append(log, Yielded(source.frameIndex))
     IN  IF input.config.ingest.generateThumbnails
         THEN /\ log' = Append(sofar, Called("createThumbnail", source.frameIndex))
              /\ pc' = "ingestVideo: createThumbnail"
              /\ locals' = locals
         ELSE FrameIsDelivered(sofar)
  /\ UNCHANGED << op, input, output, modelState, source, callers, dashboard >>

ThumbnailIsMade ==
  /\ op = "process" /\ pc = "ingestVideo: createThumbnail"
  /\ FrameIsDelivered(log)
  /\ UNCHANGED << op, input, output, modelState, source, payloads, callers, dashboard >>

\* rawFrame.close() on the payload of the frame.
Close_Nothing(all, frameIndex) == all

Close(all, frameIndex) ==
  [k \in 1..Len(all) |->
     IF all[k].frameIndex = frameIndex
     THEN [all[k] EXCEPT !.closed = @ + 1]
     ELSE all[k]]

\* decisions.push(decision)
PushVerdict_Unshift(decisions, decision) == << decision >> \o decisions

PushVerdict(decisions, decision) == Append(decisions, decision)

\* The metadata process stores: what analyzeFrame returned, with the
\* thumbnail of the frame if there is one.
StoredMetadata(metadata, generateThumbnails) ==
  IF generateThumbnails THEN [thumbnail |-> "thumbnail"] @@ metadata ELSE metadata

\* analyzeFrame has returned the metadata of the frame: process stores it,
\* decides, stores the verdict, closes the raw frame and asks the source for
\* the next frame; extractFrames advances by the stride.
FrameIsAnalyzed ==
  /\ op = "process" /\ pc = "process: analyzeFrame"
  /\ ~NeedsLoad(modelState)
  /\ \E found \in Analyses :
       LET metadata ==
             StoredMetadata(
               createFrameMetadata(
                 [timestamp |-> source.currentTime,
                  frameIndex |-> source.frameIndex,
                  videoDuration |-> input.file.duration,
                  labels |-> found.labels,
                  confidence |-> found.confidence,
                  aestheticScore |-> found.aestheticScore]),
               input.config.ingest.generateThumbnails)
           decision == decideFrame(metadata, input.config.decision)
       IN  /\ locals' = [locals EXCEPT !.frames = Append(@, metadata),
                                       !.decisions = PushVerdict(@, decision)]
           /\ payloads' = Close(payloads, source.frameIndex)
           /\ source' = [currentTime |->
                           source.currentTime + input.config.ingest.strideSeconds,
                         frameIndex |-> source.frameIndex + 1]
           /\ SeeksOrFinishes(source', locals',
                              log \o << Resolved("analyzeFrame", source.frameIndex),
                                        Released(source.frameIndex) >>)
  /\ UNCHANGED << op, input, modelState, callers, dashboard >>

\* The awaited promise rejects: nothing in process, ingestVideo or
\* extractFrames catches, so the generators are closed where they stand and
\* process rejects.
Rejects ==
  /\ op = "process"
  /\ \E error \in ErrorsAt(pc) :
       /\ log' = Append(log, Raised(Collaborator(pc), error))
       /\ output' = Propagate(error)
  /\ pc' = "returned"
  /\ UNCHANGED << op, input, modelState, locals, source, payloads, callers, dashboard >>

(***************************************************************************)
(* Actions of the callers of VisionAnalyst: loadModel, analyzeFrame and    *)
(* the first lines of process, each run from one await to the next, the    *)
(* callers taking turns at the awaits.                                     *)
(***************************************************************************)
LoadSteps == {"tf.setBackend", "tf.loadGraphModel", "fetch"}

\* Caller c is in its `call` and waits for the `awaited` promise.
Awaits(c, call, awaited) ==
  callers' = [callers EXCEPT ![c] = [call |-> call, awaiting |-> awaited]]

\* Only VisionAnalyst and the callers move.
OnlyAnalyst ==
  /\ op = "VisionAnalyst"
  /\ UNCHANGED << op, input, pc, output, locals, source, payloads, dashboard >>

\* The caller's call goes on after its `await loadModel()`, or after loadModel
\* itself has returned.
GoesOnLoaded(c, call, sofar) ==
  IF call = "analyzeFrame"
    THEN /\ Awaits(c, call, "predictions.data")
         /\ log' = Append(sofar, Called("model.predict", c))
  ELSE IF call = "process"
    THEN /\ Awaits(c, call, "getVideoMetadata")
         /\ log' = sofar \o << Reported("loading", Whole(100), 0),
                               Called("getVideoMetadata", c) >>
  ELSE /\ Awaits(c, call, "nothing")
       /\ log' = sofar

\* loadModel is entered: it returns at once if the model is loaded, and sets
\* the backend if not.
EntersLoadModel(c, call, sofar) ==
  LET entered == Append(sofar, Called("loadModel", c))
  IN  IF modelState.isLoaded
      THEN GoesOnLoaded(c, call, entered)
      ELSE /\ Awaits(c, call, "tf.setBackend")
           /\ log' = Append(entered, Called("tf.setBackend", c))

CallsLoadModel ==
  /\ OnlyAnalyst
  /\ \E c \in DOMAIN callers :
       /\ callers[c].call = "none"
       /\ EntersLoadModel(c, "loadModel", log)
  /\ UNCHANGED modelState

CallsAnalyzeFrame ==
  /\ OnlyAnalyst
  /\ \E c \in DOMAIN callers :
       /\ callers[c].call = "none"
       /\ IF NeedsLoad(modelState)
          THEN EntersLoadModel(c, "analyzeFrame", log)
          ELSE GoesOnLoaded(c, "analyzeFrame", log)
  /\ UNCHANGED modelState

CallsProcess ==
  /\ OnlyAnalyst
  /\ \E c \in DOMAIN callers :
       /\ callers[c].call = "none"
       /\ LET sofar == Append(log, Reported("loading", Whole(0), 0))
          IN  IF ~isModelLoaded(modelState)
              THEN EntersLoadModel(c, "process", sofar)
              ELSE GoesOnLoaded(c, "process", sofar)
  /\ UNCHANGED modelState

\* loadModel of a caller: the backend is ready; the model is asked for.
BackendIsReadyFor ==
  /\ OnlyAnalyst
  /\ \E c \in DOMAIN callers :
       /\ callers[c].awaiting = "tf.setBackend"
       /\ Awaits(c, callers[c].call, "tf.loadGraphModel")
       /\ log' = log \o << Resolved("tf.setBackend", c), Called("tf.loadGraphModel", c) >>
  /\ UNCHANGED modelState

\* loadModel of a caller: the model has arrived; the labels are asked for.
ModelIsFetchedFor ==
  /\ OnlyAnalyst
  /\ \E c \in DOMAIN callers :
       /\ callers[c].awaiting = "tf.loadGraphModel"
       /\ modelState' = WithModel(modelState)
       /\ Awaits(c, callers[c].call, "fetch")
       /\ log' = log \o << Resolved("tf.loadGraphModel", c), Called("fetch", c) >>

\* loadModel of a caller: the labels have arrived, the model is loaded, and
\* the call that wanted it goes on.
LabelsAreFetchedFor ==
  /\ OnlyAnalyst
  /\ \E c \in DOMAIN callers :
       /\ callers[c].awaiting = "fetch"
       /\ modelState' = WithLabels(modelState)
       /\ GoesOnLoaded(c, callers[c].call, Append(log, Resolved("fetch", c)))

\* A step of loadModel fails: the call of the caller rejects, and modelState
\* stays as the steps before left it.
LoadFailsFor ==
  /\ OnlyAnalyst
  /\ \E c \in DOMAIN callers :
       /\ callers[c].awaiting \in LoadSteps
       /\ Awaits(c, callers[c].call, "nothing")
       /\ log' = Append(log, Raised(callers[c].awaiting, << "NetworkError" >>))
  /\ UNCHANGED modelState

\* analyzeFrame of a caller returns its metadata; process of a caller goes on
\* to its frames.
CallGoesOn ==
  /\ OnlyAnalyst
  /\ \E c \in DOMAIN callers :
       /\ callers[c].awaiting \in {"predictions.data", "getVideoMetadata"}
       /\ Awaits(c, callers[c].call, "nothing")
  /\ UNCHANGED << modelState, log >>

(***************************************************************************)
(* Actions of the Dashboard: the handlers of its views.  While process     *)
(* runs for it the page shows the processing view, which has no handler.   *)
(***************************************************************************)
\* A file is chosen or dropped in the upload view: handleFileUpload makes it
\* the current file, shows the processing view, builds an AgenticBrain with
\* the default configuration and calls its process.
HandleFileUpload ==
  /\ op = "Dashboard" /\ pc = "idle"
  /\ dashboard.state = "idle"
  /\ Len(dashboard.toasts) < MaxToasts
  /\ \E file \in [duration : FileDurations] :
       /\ dashboard' = BeginsProcessing(dashboard, file)
       /\ input' = [file |-> file, config |-> DEFAULT_PIPELINE_CONFIG]
  /\ op' = "process"
  /\ pc' = "called"
  /\ output' = NoOutput
  /\ locals' = NoLocals
  /\ source' = NoSource
  /\ payloads' = << >>
  /\ log' = << >>
  /\ UNCHANGED << modelState, callers >>

\* process has settled: handleFileUpload keeps the result and shows it, or
\* catches the error.  The brain and what it held are gone.
ProcessSettles ==
  /\ op = "process" /\ pc = "returned"
  /\ dashboard.state = "processing"
  /\ dashboard' = IF output.threw
                  THEN CatchesProcessingError(dashboard, output.error)
                  ELSE ShowsResult(dashboard, output.value)
  /\ op' = "Dashboard"
  /\ pc' = "idle"
  /\ input' = [containerId |-> "app"]
  /\ output' = NoOutput
  /\ locals' = NoLocals
  /\ source' = NoSource
  /\ payloads' = << >>
  /\ log' = << >>
  /\ UNCHANGED << modelState, callers >>

StartOver ==
  /\ op = "Dashboard" /\ pc = "idle"
  /\ dashboard.state = "results"
  /\ dashboard' = StartsOver(dashboard)
  /\ UNCHANGED << op, input, pc, output, modelState, locals, source, payloads, log,
                  callers >>

\* The click on "export" in the results view: handleExport shows the
\* exporting view and loads FFmpeg.
HandleExport ==
  /\ op = "Dashboard" /\ pc = "idle"
  /\ dashboard.state = "results"
  /\ Len(dashboard.toasts) < MaxToasts
  /\ dashboard.currentFile # Null /\ dashboard.result # Null
  /\ dashboard' = render([dashboard EXCEPT !.state = "exporting"])
  /\ pc' = "handleExport: loadFFmpeg"
  /\ UNCHANGED << op, input, output, modelState, locals, source, payloads, log,
                  callers >>

FFmpegIsLoaded ==
  /\ op = "Dashboard" /\ pc = "handleExport: loadFFmpeg"
  /\ pc' = "handleExport: composeVideo"
  /\ UNCHANGED << op, input, output, modelState, locals, source, payloads, log,
                  callers, dashboard >>

VideoIsComposed ==
  /\ op = "Dashboard" /\ pc = "handleExport: composeVideo"
  /\ dashboard' = render([showToast(dashboard, << "Video exported successfully!" >>,
                                    "success")
                            EXCEPT !.state = "results"])
  /\ pc' = "idle"
  /\ UNCHANGED << op, input, output, modelState, locals, source, payloads, log,
                  callers >>

ExportFails ==
  /\ op = "Dashboard"
  /\ pc \in {"handleExport: loadFFmpeg", "handleExport: composeVideo"}
  /\ \E error \in ExternalErrors :
       dashboard' = render([showToast(dashboard, << "Export failed: " >> \o error, "error")
                             EXCEPT !.state = "results"])
  /\ pc' = "idle"
  /\ UNCHANGED << op, input, output, modelState, locals, source, payloads, log,
                  callers >>

NextTimeRange == CreateTimeRange
NextDecide == DecideFrame
NextCoalesce == CoalesceToRanges \/ MergeAdjacentRanges
NextTiled == CoalesceToRanges
NextStride == CoalesceToRanges
NextLimit == LimitByDuration
NextStats == GetRangeStats
NextAnalyst ==
  \/ CallsLoadModel \/ CallsAnalyzeFrame \/ CallsProcess
  \/ BackendIsReadyFor \/ ModelIsFetchedFor \/ LabelsAreFetchedFor
  \/ LoadFailsFor \/ CallGoesOn
NextProcess ==
  \/ ProcessBegins \/ BackendIsReady \/ ModelIsFetched \/ LabelsAreFetched
  \/ MetadataIsRead \/ IngestBegins \/ ExtractionBegins \/ VideoIsLoaded
  \/ FrameIsSought \/ FrameIsGrabbed \/ ThumbnailIsMade \/ FrameIsAnalyzed
  \/ Rejects

NextDashboard ==
  \/ HandleFileUpload \/ ProcessSettles \/ StartOver \/ HandleExport
  \/ FFmpegIsLoaded \/ VideoIsComposed \/ ExportFails \/ NextProcess

Next ==
  \/ NextTimeRange \/ NextDecide \/ NextCoalesce \/ NextTiled \/ NextLimit
  \/ NextStats \/ NextProcess \/ NextAnalyst \/ NextDashboard \/ NextStride

SpecTimeRange == InitTimeRange /\ [][NextTimeRange]_vars
SpecDecide == InitDecide /\ [][NextDecide]_vars
SpecCoalesce == InitCoalesce /\ [][NextCoalesce]_vars
SpecTiled == InitTiled /\ [][NextTiled]_vars
SpecStride == InitStride /\ [][NextStride]_vars
SpecLimit == InitLimit /\ [][NextLimit]_vars
SpecStats == InitStats /\ [][NextStats]_vars
SpecProcess == InitProcess /\ [][NextProcess]_vars
SpecAnalyst == InitAnalyst /\ [][NextAnalyst]_vars
SpecDashboard == InitDashboard /\ [][NextDashboard]_vars
Spec == Init /\ [][Next]_vars

\* The call of `name` has returned a value / has thrown.
HasReturned(name) == op = name /\ pc = "returned" /\ ~output.threw
HasThrown(name) == op = name /\ pc = "returned" /\ output.threw

(***************************************************************************)
(* Properties of createTimeRange (SpecTimeRange).                          *)
(***************************************************************************)
\* C4: createTimeRange fails whenever start < 0 or end <= start (end = start
\* included), and returns a range, with the bounds as given, only when
\* start >= 0 and end > start.
C4_RejectsEmptyAndInverted ==
  (op = "createTimeRange" /\ pc = "returned") =>
    /\ output.threw <=> (input.start < 0 \/ input.end <= input.start)
    /\ ~output.threw =>
         /\ output.value.start = input.start
         /\ output.value.end = input.end

(***************************************************************************)
(* Properties of decideFrame (SpecDecide).                                 *)
(***************************************************************************)
\* Some label contains some entry of the vocabulary, case ignored: there is
\* an offset at which the entry's characters follow one another in the label.
ContainsAt(label, entry, k) ==
  /\ k + Len(entry) <= Len(label)
  /\ \A m \in 1..Len(entry) :
       ToLowerCaseChar(label[k + m]) = ToLowerCaseChar(entry[m])
MatchesVocabulary(labels, vocabulary) ==
  \E i \in 1..Len(labels) : \E j \in 1..Len(vocabulary) :
    \E k \in 0..Len(labels[i]) : ContainsAt(labels[i], vocabulary[j], k)

\* The verdict of the aesthetic rules alone.
AestheticDecision(frame, config) ==
  IF frame.aestheticScore >= config.aestheticThreshold THEN "keep" ELSE "discard"

C7_Priorities ==
  HasReturned("decideFrame") =>
    LET score == input.frame.aestheticScore
        verdict == output.value
    IN  /\ verdict.decision = "highlight" => verdict.priority = 100 + 2 * score
        /\ verdict.decision = "keep" => verdict.priority = 50 + score
        /\ verdict.decision = "discard" => verdict.priority = 0

\* A highlight of a frame with a positive score.
C7_Witness ==
  /\ HasReturned("decideFrame")
  /\ output.value.decision = "highlight"
  /\ input.frame.aestheticScore > 0
  /\ output.value.priority > 100

\* The label, lower-cased, holds the vocabulary entry from its place k + 1 on.
EmbedsAt(label, entry, k) ==
  /\ k + Len(entry) <= Len(label)
  /\ \A m \in 1..Len(entry) : ToLowerCaseChar(label[k + m]) = entry[m]

\* Some label embeds some entry of the vocabulary.
EmbedsEntryOf(labels, vocabulary) ==
  \E i \in 1..Len(labels) : \E j \in 1..Len(vocabulary) :
    \E k \in 0..Len(labels[i]) : EmbedsAt(labels[i], vocabulary[j], k)

\* C26: shouldDiscard and shouldBoost match by case-insensitive substring
\* containment, not by equality: a label list matches a vocabulary exactly
\* when some label, lower-cased, contains some entry of the vocabulary as a
\* contiguous substring; the label rules of decideFrame fire on such a match.
C26_SubstringMatch ==
  op = "decideFrame" =>
    LET labels == input.frame.labels
        trusted == input.config.realEstateMode
                     /\ input.frame.confidence >= input.config.confidenceThreshold
    IN  /\ shouldDiscard(labels) <=> EmbedsEntryOf(labels, DISCARD_LABELS)
        /\ shouldBoost(labels) <=> EmbedsEntryOf(labels, BOOST_LABELS)
        /\ HasReturned("decideFrame") /\ trusted =>
             /\ EmbedsEntryOf(labels, DISCARD_LABELS) => output.value.decision = "discard"
             /\ ~EmbedsEntryOf(labels, DISCARD_LABELS) =>
                  (output.value.decision = "highlight" <=> EmbedsEntryOf(labels, BOOST_LABELS))

\* A frame whose only label embeds a boost entry without being one
\* ("poolside") has been highlighted, below the aesthetic threshold.
C26_Witness ==
  /\ HasReturned("decideFrame")
  /\ input.frame.labels = << << "p", "o", "o", "l", "s", "i", "d", "e" >> >>
  /\ input.frame.aestheticScore < input.config.aestheticThreshold
  /\ output.value.decision = "highlight"

(***************************************************************************)
(* Properties of coalesceToRanges and of its merge sweep (SpecCoalesce).   *)
(***************************************************************************)
\* C1: with frameWindow > 0 and mergeGap >= 0, no two distinct ranges a, b of
\* the returned list have a.start < b.end and b.start < a.end.
C1_NonOverlap ==
  (/\ HasReturned("coalesceToRanges")
   /\ input.config.frameWindow > 0
   /\ input.config.mergeGap >= 0) =>
    \A i, j \in 1..Len(output.value) :
      i # j => ~(/\ output.value[i].start < output.value[j].end
                 /\ output.value[j].start < output.value[i].end)

\* Verdicts whose windows overlap, with a later one apart from them, give
\* two ranges.
C1_Witness ==
  /\ HasReturned("coalesceToRanges")
  /\ input.config.frameWindow > 0
  /\ input.config.mergeGap >= 0
  /\ Len(output.value) >= 2
  /\ \E i, j \in 1..Len(input.decisions) :
       /\ i # j
       /\ input.decisions[i].decision # "discard"
       /\ input.decisions[j].decision # "discard"
       /\ input.decisions[i].timestamp < input.decisions[j].timestamp
       /\ input.decisions[j].timestamp
            < input.decisions[i].timestamp + input.config.frameWindow

\* C2: every returned range has end - start >= minSegmentDuration.
C2_DurationFloor ==
  HasReturned("coalesceToRanges") =>
    \A i \in 1..Len(output.value) :
      output.value[i].end - output.value[i].start >= input.config.minSegmentDuration

\* A merged range is returned while a single frame's window, shorter than
\* the minimum, is not.
C2_Witness ==
  /\ HasReturned("coalesceToRanges")
  /\ input.config.minSegmentDuration > input.config.frameWindow
  /\ Len(output.value) = 1
  /\ \E i \in 1..Len(input.decisions) :
       /\ input.decisions[i].decision # "discard"
       /\ \A k \in 1..Len(output.value) :
            \/ input.decisions[i].timestamp < output.value[k].start
            \/ input.decisions[i].timestamp >= output.value[k].end

\* ---- the specified algorithm, stated on the verdicts' indices
\* Verdict i comes before verdict j once sorted by timestamp (stable).
Precedes(ds, i, j) ==
  \/ ds[i].timestamp < ds[j].timestamp
  \/ ds[i].timestamp = ds[j].timestamp /\ i < j
KeptIndices(ds) == {i \in 1..Len(ds) : ds[i].decision # "discard"}
\* j is the kept verdict right after i.
IsNextKept(ds, i, j) ==
  /\ Precedes(ds, i, j)
  /\ ~\E k \in KeptIndices(ds) : Precedes(ds, i, k) /\ Precedes(ds, k, j)
\* The window of j does not merge into the accumulator that ends with i's
\* window: its start is beyond the accumulator's end + mergeGap.
BreakBetween(ds, config, i, j) ==
  ds[j].timestamp > ds[i].timestamp + config.frameWindow + config.mergeGap
\* i opens an accumulator: it is the first kept verdict, or does not merge.
IsLeader(ds, config, i) ==
  \A h \in KeptIndices(ds) : IsNextKept(ds, h, i) => BreakBetween(ds, config, h, i)
\* The verdicts absorbed by the accumulator that i opens.
Absorbed(ds, config, i) ==
  {j \in KeptIndices(ds) :
     /\ (j = i \/ Precedes(ds, i, j))
     /\ \A h, k \in KeptIndices(ds) :
          (/\ (h = i \/ Precedes(ds, i, h))
           /\ (k = j \/ Precedes(ds, k, j))
           /\ IsNextKept(ds, h, k)) => ~BreakBetween(ds, config, h, k)}
MaxOf(S) == CHOOSE x \in S : \A y \in S : y <= x
MinOf(S) == CHOOSE x \in S : \A y \in S : x <= y
Earliest(ds, S) == CHOOSE i \in S : \A j \in S : j = i \/ Precedes(ds, i, j)
\* The reason of the earliest verdict of S.
EarliestReason(ds, S) == ds[Earliest(ds, S)].reason
\* The reason of the earliest verdict of S whose reason is not empty; the
\* empty string when there is none.
EarliestNonEmptyReason(ds, S) ==
  LET named == {i \in S : ds[i].reason # << >>}
  IN  IF named = {} THEN << >> ELSE ds[Earliest(ds, named)].reason
\* The accumulator that i opens, but for its label.
AccumulatorFits(ds, config, i, r) ==
  LET members == Absorbed(ds, config, i)
  IN  /\ r.start = MinOf({ds[j].timestamp : j \in members})
      /\ r.end = MaxOf({ds[j].timestamp + config.frameWindow : j \in members})
      /\ r.priority = MaxOf({ds[j].priority : j \in members})
\* The leaders whose accumulator is long enough to be returned.
ReturnedLeaders(ds, config) ==
  {i \in KeptIndices(ds) :
     /\ IsLeader(ds, config, i)
     /\ LET members == Absorbed(ds, config, i)
        IN  MaxOf({ds[j].timestamp + config.frameWindow : j \in members})
              - MinOf({ds[j].timestamp : j \in members})
              >= config.minSegmentDuration}
\* The place in the output of the accumulator that i opens.
PlaceOf(ds, leaders, i) == 1 + Cardinality({h \in leaders : Precedes(ds, h, i)})

\* `out` is the result of the specified algorithm but for the labels.
IsCoalesced(ds, config, out) ==
  LET leaders == ReturnedLeaders(ds, config)
  IN  /\ Len(out) = Cardinality(leaders)
      /\ \A i \in leaders : AccumulatorFits(ds, config, i, out[PlaceOf(ds, leaders, i)])

\* [0,2) and [3,5), the latter with priority 12.
MergeExampleHolds ==
  (input.decisions = MergeExample /\ input.config = DEFAULT_COALESCER_CONFIG) =>
    /\ Len(output.value) = 2
    /\ output.value[1].start = 0 /\ output.value[1].end = 20
    /\ output.value[1].priority = 50
    /\ output.value[2].start = 30 /\ output.value[2].end = 50
    /\ output.value[2].priority = 120

\* C8 (as stated): the returned list is the result of the specified
\* algorithm, each range having the maximum priority of the verdicts it
\* absorbed and, as label, the reason of its earliest verdict.
C8_LabelOfEarliest ==
  HasReturned("coalesceToRanges") =>
    LET ds == input.decisions
        config == input.config
        leaders == ReturnedLeaders(ds, config)
    IN  /\ IsCoalesced(ds, config, output.value)
        /\ MergeExampleHolds
        /\ \A i \in leaders :
             output.value[PlaceOf(ds, leaders, i)].label
               = EarliestReason(ds, Absorbed(ds, config, i))

\* C8 (amended): as above, the label being the reason of the earliest
\* absorbed verdict whose reason is not empty (the accumulator's label if
\* present, else the incoming one), empty when every reason is.
C8_LabelOfEarliestNonEmpty ==
  HasReturned("coalesceToRanges") =>
    LET ds == input.decisions
        config == input.config
        leaders == ReturnedLeaders(ds, config)
    IN  /\ IsCoalesced(ds, config, output.value)
        /\ MergeExampleHolds
        /\ \A i \in leaders :
             output.value[PlaceOf(ds, leaders, i)].label
               = EarliestNonEmptyReason(ds, Absorbed(ds, config, i))

\* A returned range that absorbed verdicts of different priorities, the
\* earliest with an empty reason and a later one with a reason.
C8_Witness ==
  /\ HasReturned("coalesceToRanges")
  /\ LET ds == input.decisions
         config == input.config
     IN  \E i \in ReturnedLeaders(ds, config) :
           LET members == Absorbed(ds, config, i)
           IN  /\ \E j, k \in members : ds[j].priority < ds[k].priority
               /\ EarliestReason(ds, members) = << >>
               /\ EarliestNonEmptyReason(ds, members) # << >>
               /\ output.value[PlaceOf(ds, ReturnedLeaders(ds, config), i)].priority
                    = MaxOf({ds[j].priority : j \in members})

\* ---- the merge sweep itself
\* Range r lies within range o.
Within(r, o) == o.start <= r.start /\ r.end <= o.end

\* [0,1) and [1.3,2), as the sweep receives them.
GapExample ==
  << [start |-> 0, end |-> 10, priority |-> 50, label |-> << >>],
     [start |-> 13, end |-> 20, priority |-> 50, label |-> << >>] >>

\* C9: the sweep merges a range into the accumulator iff its start is at most
\* the accumulator's end + mergeGap: two ranges at most mergeGap apart (a gap
\* of exactly mergeGap included) end up in one returned range, two
\* neighbouring returned ranges are more than mergeGap apart, and [0,1),
\* [1.3,2) become [0,2) iff mergeGap >= 0.3.
C9_MergeIffWithinGap ==
  HasReturned("mergeAdjacentRanges") =>
    LET ranges == input.ranges
        mergeGap == input.mergeGap
        out == output.value
    IN  /\ \A i \in 1..Len(ranges) : \E k \in 1..Len(out) : Within(ranges[i], out[k])
        /\ \A i, j \in 1..Len(ranges) :
             (/\ ranges[i].start <= ranges[j].start
              /\ ranges[j].start <= ranges[i].end + mergeGap) =>
               \E k \in 1..Len(out) : Within(ranges[i], out[k]) /\ Within(ranges[j], out[k])
        /\ \A k \in 1..(Len(out) - 1) : out[k + 1].start > out[k].end + mergeGap
        /\ \A k \in 1..Len(out) :
             /\ \E i \in 1..Len(ranges) : ranges[i].start = out[k].start
             /\ \E i \in 1..Len(ranges) : ranges[i].end = out[k].end
        /\ ranges = GapExample =>
             IF mergeGap >= 3
             THEN out = << [start |-> 0, end |-> 20, priority |-> 50, label |-> << >>] >>
             ELSE out = GapExample

\* [0,1) and [1.3,2) with mergeGap = 0.3, a gap of exactly mergeGap: merged.
C9_Witness ==
  /\ HasReturned("mergeAdjacentRanges")
  /\ input.ranges = GapExample
  /\ input.mergeGap = 3
  /\ Len(output.value) = 1
  /\ output.value[1].start = 0
  /\ output.value[1].end = 20

(***************************************************************************)
(* Coalescing its own output again (SpecTiled).                            *)
(***************************************************************************)
\* The timestamps of verdicts whose frame windows tile the range r: windows
\* laid end to end from r.start, and one more ending at r.end where they do
\* not reach it.
TileTimestamps(r, frameWindow) ==
  IF frameWindow <= 0 THEN << r.start >>
  ELSE LET whole == (r.end - r.start) \div frameWindow
           laid == [k \in 1..whole |-> r.start + (k - 1) * frameWindow]
       IN  IF r.start + whole * frameWindow < r.end
           THEN Append(laid, r.end - frameWindow)
           ELSE laid

\* The synthetic verdicts that reconstruct the ranges: the tiles of each range,
\* kept, carrying the range's priority and label.
RECURSIVE Reconstruct(_, _, _)
Reconstruct(ranges, frameWindow, i) ==
  IF i > Len(ranges) THEN << >>
  ELSE LET tiles == TileTimestamps(ranges[i], frameWindow)
       IN  [k \in 1..Len(tiles) |->
              [timestamp |-> tiles[k], decision |-> "keep",
               reason |-> ranges[i].label, priority |-> ranges[i].priority]]
           \o Reconstruct(ranges, frameWindow, i + 1)

\* The windows of the tiles of r cover r and nothing else.
TilesCover(r, frameWindow) ==
  LET tiles == TileTimestamps(r, frameWindow)
  IN  /\ \A k \in 1..Len(tiles) :
            r.start <= tiles[k] /\ tiles[k] + frameWindow <= r.end
      /\ \A t \in r.start..(r.end - 1) :
            \E k \in 1..Len(tiles) : tiles[k] <= t /\ t < tiles[k] + frameWindow

\* C12: coalescing is idempotent: coalescing, under the same configuration,
\* the verdicts whose frame windows tile the ranges that coalesceToRanges
\* returned gives the same ranges again; none merge further, none is dropped.
C12_Idempotent ==
  HasReturned("coalesceToRanges") =>
    LET R == output.value
        synthetic == Reconstruct(R, input.config.frameWindow, 1)
    IN  /\ \A i \in 1..Len(R) : TilesCover(R[i], input.config.frameWindow)
        /\ coalesceToRanges(synthetic, input.config) = Returned(R)

\* Two ranges were returned, one of them longer than two frame windows and
\* not a whole number of them, so that three overlapping tiles rebuild it.
C12_Witness ==
  /\ HasReturned("coalesceToRanges")
  /\ Len(output.value) = 2
  /\ \E i \in 1..Len(output.value) :
        /\ Len(TileTimestamps(output.value[i], input.config.frameWindow)) = 3
        /\ (output.value[i].end - output.value[i].start) % input.config.frameWindow # 0
  /\ Len(Reconstruct(output.value, input.config.frameWindow, 1)) = 4

\* The returned ranges that hold the time t.
RangesHolding(ranges, t) == {k \in 1..Len(ranges) : ranges[k].start <= t /\ t < ranges[k].end}

\* C28: whenever frameWindow > 0, frameWindow >= minSegmentDuration and
\* mergeGap >= 0, the timestamp of every verdict that is not a discard lies in
\* exactly one returned range: neither merging nor the minimum duration loses
\* a kept or highlighted frame.
C28_KeptFramesCovered ==
  HasReturned("coalesceToRanges")
    /\ input.config.frameWindow > 0
    /\ input.config.frameWindow >= input.config.minSegmentDuration
    /\ input.config.mergeGap >= 0
  => \A i \in 1..Len(input.decisions) :
       input.decisions[i].decision # "discard" =>
         Cardinality(RangesHolding(output.value, input.decisions[i].timestamp)) = 1

\* Windows as long as the minimum duration: two that overlap and one apart
\* have been returned as two ranges.
C28_Witness ==
  /\ HasReturned("coalesceToRanges")
  /\ input.config.frameWindow = input.config.minSegmentDuration
  /\ Len(input.decisions) = 3
  /\ \A i \in 1..3 : input.decisions[i].decision # "discard"
  /\ {input.decisions[i].timestamp : i \in 1..3} = {0, 7, 30}
  /\ Len(output.value) = 2

(***************************************************************************)
(* Verdicts sampled at a stride (SpecStride).                              *)
(***************************************************************************)
\* The verdicts are sampled at the stride s: their timestamps are distinct
\* multiples of s.
SampledAt(decisions, s) ==
  /\ \A i \in 1..Len(decisions) : decisions[i].timestamp % s = 0
  /\ \A i, j \in 1..Len(decisions) :
       i # j => decisions[i].timestamp # decisions[j].timestamp

\* The range holds the time t.
Holds(r, t) == r.start <= t /\ t < r.end

\* C27: when the verdicts are sampled at a stride s, frameWindow = s and
\* 0 <= mergeGap < s, no returned range holds the timestamp of a discard
\* verdict: merging across a gap never takes a discarded frame in.
C27_DiscardsStayOut ==
  HasReturned("coalesceToRanges")
    /\ SampledAt(input.decisions, input.config.frameWindow)
    /\ 0 <= input.config.mergeGap /\ input.config.mergeGap < input.config.frameWindow
  => \A i \in 1..Len(input.decisions) :
       input.decisions[i].decision = "discard" =>
         \A k \in 1..Len(output.value) :
           ~Holds(output.value[k], input.decisions[i].timestamp)

\* keep, discard, keep at three strides in a row, under the largest merge gap
\* below the stride: two ranges are returned, apart by the discarded frame.
C27_Witness ==
  /\ HasReturned("coalesceToRanges")
  /\ Len(input.decisions) = 3
  /\ SampledAt(input.decisions, input.config.frameWindow)
  /\ input.config.mergeGap = 9 /\ input.config.frameWindow = Tenths(1)
  /\ \E i, j, k \in 1..3 :
       /\ input.decisions[i].timestamp = 0 /\ input.decisions[i].decision = "keep"
       /\ input.decisions[j].timestamp = 10 /\ input.decisions[j].decision = "discard"
       /\ input.decisions[k].timestamp = 20 /\ input.decisions[k].decision = "keep"
  /\ Len(output.value) = 2

(***************************************************************************)
(* Properties of limitByDuration (SpecLimit).                              *)
(***************************************************************************)
RECURSIVE TotalDuration(_)
TotalDuration(ranges) ==
  IF Len(ranges) = 0 THEN 0
  ELSE (ranges[1].end - ranges[1].start) + TotalDuration(Tail(ranges))

\* C3: with every range's end >= start and maxDuration >= 0, the durations of
\* the returned ranges sum to at most maxDuration.
C3_Budget ==
  (/\ HasReturned("limitByDuration")
   /\ input.maxDuration >= 0
   /\ \A i \in 1..Len(input.ranges) : input.ranges[i].end >= input.ranges[i].start) =>
    TotalDuration(output.value) <= input.maxDuration

\* The budget is used in full by some of the ranges and the rest, which
\* would each fit alone, are left out.
C3_Witness ==
  /\ HasReturned("limitByDuration")
  /\ input.maxDuration > 0
  /\ Len(output.value) >= 2
  /\ Len(output.value) < Len(input.ranges)
  /\ TotalDuration(output.value) = input.maxDuration
  /\ \A i \in 1..Len(input.ranges) :
       input.ranges[i].end - input.ranges[i].start <= input.maxDuration

\* ---- the greedy selection, stated on the ranges' indices
\* Range i is considered before range j: higher priority, ties in input order.
ConsideredBefore(ranges, i, j) ==
  \/ ranges[i].priority > ranges[j].priority
  \/ ranges[i].priority = ranges[j].priority /\ i < j
RECURSIVE DurationOf(_, _)
DurationOf(ranges, S) ==
  IF S = {} THEN 0
  ELSE LET i == CHOOSE x \in S : TRUE
       IN  (ranges[i].end - ranges[i].start) + DurationOf(ranges, S \ {i})
\* A is the set accepted: each range is in A iff it fits on top of the
\* ranges of A considered before it.
IsGreedy(ranges, maxDuration, A) ==
  \A i \in 1..Len(ranges) :
    i \in A <=>
      DurationOf(ranges, {j \in A : ConsideredBefore(ranges, j, i)})
        + (ranges[i].end - ranges[i].start) <= maxDuration
Accepted(ranges, maxDuration) ==
  CHOOSE A \in SUBSET (1..Len(ranges)) : IsGreedy(ranges, maxDuration, A)
\* The place of accepted range i in the result: by start, ties in the order
\* of acceptance.
PlaybackPlace(ranges, A, i) ==
  1 + Cardinality({j \in A :
                     \/ ranges[j].start < ranges[i].start
                     \/ /\ ranges[j].start = ranges[i].start
                        /\ ConsideredBefore(ranges, j, i)})

\* A [0,2) priority 5 and B [3,5) priority 12.
LimitExample ==
  << [start |-> 0, end |-> 20, priority |-> 50, label |-> << >>],
     [start |-> 30, end |-> 50, priority |-> 120, label |-> << >>] >>

\* C10: the result is the greedy selection (descending priority, ties in
\* input order; accepted iff the running total plus the range's duration is
\* <= maxDuration; no reconsideration), sorted by start ascending; A, B with
\* maxDuration 2 give [B].
C10_GreedySelection ==
  HasReturned("limitByDuration") =>
    LET ranges == input.ranges
        maxDuration == input.maxDuration
        A == Accepted(ranges, maxDuration)
    IN  /\ \E S \in SUBSET (1..Len(ranges)) : IsGreedy(ranges, maxDuration, S)
        /\ Len(output.value) = Cardinality(A)
        /\ \A i \in A : output.value[PlaybackPlace(ranges, A, i)] = ranges[i]
        /\ \A k \in 1..(Len(output.value) - 1) :
             output.value[k].start <= output.value[k + 1].start
        /\ (ranges = LimitExample /\ maxDuration = 20) =>
             output.value = << LimitExample[2] >>

\* A range is rejected and a range considered after it is accepted; the
\* accepted ranges come back in another order than they were accepted in.
C10_Witness ==
  /\ HasReturned("limitByDuration")
  /\ LET ranges == input.ranges
         A == Accepted(ranges, input.maxDuration)
     IN  /\ \E i \in (1..Len(ranges)) \ A : \E j \in A : ConsideredBefore(ranges, i, j)
         /\ \E i, j \in A :
              /\ ConsideredBefore(ranges, i, j)
              /\ ranges[j].start < ranges[i].start
         /\ Len(output.value) = Cardinality(A)

(***************************************************************************)
(* Properties of getRangeStats (SpecStats).                                *)
(***************************************************************************)
\* The retained duration, stated on the ranges' indices.
RECURSIVE RetainedDuration(_, _)
RetainedDuration(ranges, S) ==
  IF S = {} THEN 0
  ELSE LET i == CHOOSE j \in S : TRUE
       IN  (ranges[i].end - ranges[i].start) + RetainedDuration(ranges, S \ {i})

\* C11: the compression ratio is the source duration divided by the retained
\* duration when the retained duration is positive, and 1 when nothing is
\* retained (a 100 s source with 25 s retained gives 4; with nothing
\* retained it gives 1).
C11_CompressionRatio ==
  HasReturned("getRangeStats") =>
    LET retained == RetainedDuration(input.ranges, DOMAIN input.ranges)
        ratio == output.value.compressionRatio
    IN  IF retained > 0
        THEN SameNumber(ratio, Divide(input.videoDuration, retained))
        ELSE SameNumber(ratio, Whole(1))

(***************************************************************************)
(* Properties of process (SpecProcess).                                    *)
(***************************************************************************)
\* The entries of one kind in the log, in order.
Entries(kind) == Filter(log, [i \in 1..Len(log) |-> log[i].kind = kind])
Events == Entries("report")

Succeeded == op = "process" /\ pc = "returned" /\ ~output.threw
Failed == op = "process" /\ pc = "returned" /\ output.threw

\* The place of a stage in loading -> extracting/analyzing -> deciding ->
\* complete.
StageGroup(stage) ==
  CASE stage = "loading" -> 1
    [] stage \in {"extracting", "analyzing"} -> 2
    [] stage = "deciding" -> 3
    [] stage = "complete" -> 4

\* loading, loading, one (extracting, analyzing) pair per frame, deciding,
\* complete.
StagesOfRun(frameTotal) ==
  << "loading", "loading" >>
    \o [k \in 1..(2 * frameTotal) |-> IF k % 2 = 1 THEN "extracting" ELSE "analyzing"]
    \o << "deciding", "complete" >>

\* C13: the stages of the progress events never go back to an earlier group,
\* and a successful run has emitted exactly loading, loading, one
\* (extracting, analyzing) pair per frame, deciding, complete, in this order.
C13_StageOrder ==
  op = "process" =>
    /\ \A i, j \in 1..Len(Events) :
         i < j => StageGroup(Events[i].name) <= StageGroup(Events[j].name)
    /\ Succeeded =>
         [i \in 1..Len(Events) |-> Events[i].name] = StagesOfRun(Len(payloads))

\* A run that loaded the model and analyzed three frames has succeeded.
C13_Witness ==
  /\ Succeeded
  /\ Len(payloads) = 3
  /\ \E i \in 1..Len(log) : log[i].kind = "call" /\ log[i].name = "tf.loadGraphModel"

\* x <= y on the values of two finite quotients.
AtMost(x, y) ==
  /\ x.kind = "finite" /\ y.kind = "finite"
  /\ IF (x.den > 0) = (y.den > 0)
     THEN x.num * y.den <= y.num * x.den
     ELSE x.num * y.den >= y.num * x.den

\* C14: within a run the progress never decreases within a stage: an event
\* carries a progress at least that of every earlier event of its stage.
C14_MonotoneWithinStage ==
  op = "process" =>
    \A i, j \in 1..Len(Events) :
      i < j /\ Events[i].name = Events[j].name =>
        AtMost(Events[i].progress, Events[j].progress)

\* Three frames have been reported, each stage with a progress above that of
\* the frame before.
C14_Witness ==
  /\ op = "process"
  /\ \E i, j, k \in 1..Len(Events) :
       /\ i < j /\ j < k
       /\ Events[i].name = "analyzing" /\ Events[j].name = "analyzing"
       /\ Events[k].name = "analyzing"
       /\ ~AtMost(Events[j].progress, Events[i].progress)
       /\ ~AtMost(Events[k].progress, Events[j].progress)

\* ceil(duration / strideSeconds), stated without the division: the least
\* number of strides that cover the duration.
LeastCover(duration, strideSeconds) ==
  CHOOSE n \in 0..duration : n * strideSeconds >= duration
                              /\ (n = 0 \/ (n - 1) * strideSeconds < duration)

Raises == {i \in 1..Len(log) : log[i].kind = "raise"}

\* C16: when model loading, metadata or frame acquisition, or inference
\* raises an error, process rejects with that very error and returns no
\* result; after the error no deciding or complete event is emitted and no
\* collaborator is called again.
C16_ErrorsPropagate ==
  op = "process" =>
    /\ \A i \in Raises :
         /\ pc = "returned" /\ output.threw /\ output.error = log[i].error
         /\ \A j \in (i + 1)..Len(log) :
              /\ log[j].kind # "call"
              /\ log[j].kind # "raise"
              /\ ~(log[j].kind = "report" /\ log[j].name \in {"deciding", "complete"})
    /\ Failed /\ Raises # {} =>
         \A j \in 1..Len(Events) : Events[j].name \notin {"deciding", "complete"}

\* Inference failed on the second of three frames, after the first had been
\* analyzed and model loading and the acquisition of two frames had succeeded.
C16_Witness ==
  /\ Failed
  /\ log[Len(log)].kind = "raise" /\ log[Len(log)].name = "analyzeFrame"
  /\ Len(locals.frames) = 1
  /\ locals.expectedFrames = 3
  /\ \E i \in 1..Len(log) : log[i].kind = "call" /\ log[i].name = "fetch"

\* C17: the ranges of every result of process are in ascending order of start
\* and pairwise non-overlapping, with and without a maximum output duration.
C17_ResultRangesOrdered ==
  Succeeded =>
    LET R == output.value.ranges
    IN  \A i, j \in 1..Len(R) :
          i < j => /\ R[i].start <= R[j].start
                   /\ ~(R[i].start < R[j].end /\ R[j].start < R[i].end)

\* A result limited to a maximum duration holds two ranges, the later one of
\* the higher priority: the limiter took it first and put it back in place.
C17_Witness ==
  /\ Succeeded
  /\ input.config.maxOutputDuration > 0
  /\ Len(output.value.ranges) = 2
  /\ output.value.ranges[1].priority < output.value.ranges[2].priority

\* The payloads not released yet.
Unreleased == {k \in 1..Len(payloads) : payloads[k].closed = 0}

\* C19: frames are processed one at a time: the payload of a frame is
\* released in the step that records its verdict and before the next frame is
\* asked for, at most one payload is unreleased at any point, none is released
\* twice, and when process returns its result all have been released.
C19_OneFrameAtATime ==
  op = "process" =>
    /\ Cardinality(Unreleased) <= 1
    /\ \A k \in 1..Len(payloads) :
         /\ payloads[k].closed <= 1
         /\ payloads[k].closed = 1 <=> Len(locals.decisions) >= k
    /\ \A i \in 1..Len(log) :
         log[i].kind = "call" /\ log[i].name = "video.seek" /\ log[i].frame > 0 =>
           /\ log[i - 1].kind = "release"
           /\ log[i - 1].frame = log[i].frame - 1
    /\ Succeeded => Unreleased = {}

\* The third frame is with the analyst, unreleased; the two before it have
\* been released.
C19_Witness ==
  /\ op = "process" /\ pc = "process: analyzeFrame"
  /\ Len(payloads) = 3
  /\ Unreleased = {3}
  /\ payloads[1].closed = 1 /\ payloads[2].closed = 1

\* C20: a result holds exactly one verdict per frame, in the order the frames
\* were yielded: frames and decisions are as long as the number of frames
\* yielded and as stats.framesAnalyzed, and decisions[i] is the verdict of
\* decideFrame on frames[i], with its timestamp.
C20_OneVerdictPerFrame ==
  Succeeded =>
    LET result == output.value
    IN  /\ Len(result.frames) = Len(payloads)
        /\ Len(result.decisions) = Len(payloads)
        /\ result.stats.framesAnalyzed = Len(payloads)
        /\ result.decisions = processFrameBatch(result.frames, input.config.decision)
        /\ \A i \in 1..Len(payloads) :
             /\ result.frames[i].frameIndex = payloads[i].frameIndex
             /\ result.decisions[i].timestamp = result.frames[i].timestamp
             /\ result.frames[i].timestamp =
                  payloads[i].frameIndex * input.config.ingest.strideSeconds

\* The frame cap ended a run early; its two frames got different verdicts.
C20_Witness ==
  /\ Succeeded
  /\ Len(payloads) = 2
  /\ Len(payloads) < locals.expectedFrames
  /\ output.value.decisions[1].decision # output.value.decisions[2].decision

\* The calls process made to `name`.
CallsOf(name) == {i \in 1..Len(log) : log[i].kind = "call" /\ log[i].name = name}

\* C21: process runs limitByDuration if and only if maxOutputDuration > 0, and
\* then returns what the limiter makes of the coalesced ranges; with
\* maxOutputDuration <= 0 the returned ranges are exactly what coalesceToRanges
\* returned for the verdicts, nothing removed.
C21_LimitOnlyWhenConfigured ==
  Succeeded =>
    LET coalesced == coalesceToRanges(output.value.decisions, input.config.coalescer).value
        maxOutputDuration == input.config.maxOutputDuration
    IN  /\ Cardinality(CallsOf("coalesceToRanges")) = 1
        /\ CallsOf("limitByDuration") # {} <=> maxOutputDuration > 0
        /\ maxOutputDuration > 0 =>
             /\ Cardinality(CallsOf("limitByDuration")) = 1
             /\ output.value.ranges = limitByDuration(coalesced, maxOutputDuration)
        /\ maxOutputDuration <= 0 => output.value.ranges = coalesced

\* A run without a limit has returned two ranges, two seconds in all.
C21_Witness ==
  /\ Succeeded
  /\ input.config.maxOutputDuration <= 0
  /\ Len(output.value.ranges) = 2
  /\ output.value.stats.outputDuration = Tenths(2)

\* The places of the log where `stage` was reported for the k-th frame.
ReportsOf(stage, k) ==
  {i \in 1..Len(log) : log[i].kind = "report" /\ log[i].name = stage /\ log[i].frame = k}

\* The places of the log where inference for the k-th frame returned.
InferenceReturns(k) ==
  {i \in 1..Len(log) :
     log[i].kind = "resolve" /\ log[i].name = "analyzeFrame" /\ log[i].frame = k - 1}

\* C23: for each frame process emits the extracting event, invokes inference,
\* and emits the analyzing event only after inference for that frame has
\* returned.
C23_AnalyzingAfterInference ==
  op = "process" =>
    \A k \in 1..Len(payloads) :
      \A a \in ReportsOf("analyzing", k) :
        /\ \E e \in ReportsOf("extracting", k) : e < a
        /\ \E r \in InferenceReturns(k) : r < a

\* C24: every payload the frame source has yielded is released by process,
\* also when the run is abandoned because inference raised an error: once
\* process has settled, by a result or by an error, no yielded payload is
\* left unreleased.
C24_ReleasedWhenSettled ==
  op = "process" /\ pc = "returned" => Unreleased = {}

\* The number of frames a source of this duration yields under the stride and
\* the frame cap.
FramesOfSource(duration, config) ==
  LET uncapped == LeastCover(duration, config.strideSeconds)
  IN  IF config.maxFrames > 0 THEN Min(uncapped, config.maxFrames) ELSE uncapped

C29_RangesWithinSource ==
  Succeeded /\ input.config.coalescer.frameWindow = input.config.ingest.strideSeconds =>
    /\ \A k \in 1..Len(output.value.ranges) :
         output.value.ranges[k].end <= input.file.duration
    /\ output.value.stats.outputDuration <= output.value.stats.videoDuration

\* The range holds the timestamp of a highlight among the verdicts.
AbsorbedHighlight(r, decisions) ==
  \E i \in 1..Len(decisions) :
    /\ decisions[i].decision = "highlight"
    /\ r.start <= decisions[i].timestamp /\ decisions[i].timestamp < r.end

\* C30: with aesthetic scores in [0,1] every highlight verdict of decideFrame
\* has a priority of at least 10 and every keep verdict one of at most 6, and
\* the order in which limitByDuration considers the coalesced ranges puts
\* every range that absorbed a highlight before every range made of keep
\* verdicts only.
C30_HighlightsFirst ==
  Succeeded =>
    LET decisions == output.value.decisions
        coalesced == coalesceToRanges(decisions, input.config.coalescer).value
        considered == ByPriority(coalesced)
    IN  /\ \A i \in 1..Len(decisions) :
             /\ 0 <= output.value.frames[i].aestheticScore
             /\ output.value.frames[i].aestheticScore <= Tenths(1)
             /\ decisions[i].decision = "highlight" => decisions[i].priority >= Tenths(10)
             /\ decisions[i].decision = "keep" => decisions[i].priority <= Tenths(6)
        /\ \A i, j \in 1..Len(considered) :
             AbsorbedHighlight(considered[i], decisions)
               /\ ~AbsorbedHighlight(considered[j], decisions)
             => i < j

\* A limited run: the later of two ranges is a highlight of the lowest score,
\* the earlier a keep of the highest; the limiter took the highlight first.
C30_Witness ==
  /\ Succeeded
  /\ input.config.maxOutputDuration > 0
  /\ Len(output.value.ranges) = 2
  /\ output.value.ranges[1].priority = Tenths(6)
  /\ output.value.ranges[2].priority = Tenths(10)
  /\ ByPriority(output.value.ranges)[1] = output.value.ranges[2]

(***************************************************************************)
(* Properties of the shared model state (SpecAnalyst).                     *)
(***************************************************************************)
\* The places of the log where a step of loadModel ran to success.
Successes(step) == {i \in 1..Len(log) : log[i].kind = "resolve" /\ log[i].name = step}

\* The places of the log where loadModel was called with the model loaded.
LateLoads ==
  {i \in 1..Len(log) :
     /\ log[i].kind = "call" /\ log[i].name = "loadModel"
     /\ \E j \in Successes("fetch") : j < i}

\* C18: the model is loaded at most once: whatever the calls of process,
\* loadModel and analyzeFrame and however they interleave, each loading step
\* (backend setup, model fetch, label fetch) runs to success at most once, and
\* a loadModel called after a successful load does nothing.
C18_LoadedAtMostOnce ==
  op = "VisionAnalyst" =>
    /\ \A step \in LoadSteps : Cardinality(Successes(step)) <= 1
    /\ \A i \in LateLoads :
         \A k \in (i + 1)..Len(log) :
           ~(log[k].kind = "call" /\ log[k].frame = log[i].frame
               /\ log[k].name \in LoadSteps)

(***************************************************************************)
(* Properties of the Dashboard (SpecDashboard).                            *)
(***************************************************************************)
\* The run of process has settled with an error, not yet handled.
RunHasFailed == op = "process" /\ pc = "returned" /\ output.threw

\* C22: when process rejects, the Dashboard keeps no result, reports the
\* failure in a toast with the message of the error and goes from processing
\* to idle; an upload from idle starts a fresh run (a new call of process on
\* the new file, with no result, ranges, frames or verdicts left over); and
\* the Dashboard enters results only with the result of a run that returned
\* one, and shows results or exporting only while it holds a result.
C22_FailedRunLeavesIdle ==
  [][ /\ RunHasFailed =>
           /\ dashboard.state = "processing"
           /\ dashboard'.state = "idle"
           /\ dashboard'.result = Null
           /\ dashboard'.toasts =
                Append(dashboard.toasts,
                       [type |-> "error",
                        message |-> << "Processing failed: " >> \o output.error])
      /\ op = "process" => dashboard.state = "processing" /\ dashboard.result = Null
      /\ dashboard.state = "processing" /\ dashboard'.state # "processing" =>
           IF output.threw
           THEN dashboard'.state = "idle"
           ELSE dashboard'.state = "results" /\ dashboard'.result = output.value
      /\ dashboard'.state \in {"results", "exporting"} => dashboard'.result # Null
      /\ dashboard.state = "idle" /\ dashboard'.state # "idle" =>
           /\ dashboard'.state = "processing"
           /\ dashboard'.result = Null
           /\ dashboard'.playbackRanges = << >>
           /\ dashboard'.currentFile = input'.file
           /\ op' = "process" /\ pc' = "called" /\ output' = NoOutput
           /\ input'.config = DEFAULT_PIPELINE_CONFIG
           /\ locals' = NoLocals /\ source' = NoSource
           /\ payloads' = << >> /\ log' = << >>
    ]_vars

\* A run has failed and has been reported, and the run of the next upload
\* has its first frame.
C22_Witness ==
  /\ op = "process"
  /\ Len(payloads) = 1
  /\ Len(dashboard.toasts) = 1
  /\ dashboard.toasts[1].type = "error"
  /\ dashboard.toasts[1].message[1] = "Processing failed: "
  /\ dashboard.state = "processing"

====
